---- MODULE Spec2Model ----
(***************************************************************************)
(* Model of the navigation-dispatch core of the browser extension:         *)
(*   - the route matcher (findHandlerForUrl and its match predicates),     *)
(*   - the URL monitor and the content script's debounced dispatch         *)
(*     (handleUrlChange / processUrlChange).                               *)
(* JavaScript strings are sequences of one-character strings, so that      *)
(* split, endsWith, includes and substring are computed, not assumed.      *)
(***************************************************************************)
EXTENDS Integers, Sequences, FiniteSets, TLC

(***************************************************************************)
(* Bounds of the model                                                     *)
(***************************************************************************)
\* number of raw URL signals (calls of handleUrlChange) in one run
MaxSignals == 4
\* last instant (ms) at which a raw signal may still arrive
MaxTime == 5500
\* number of route rules in one site entry of a generated registry
MaxRoutes == 2
\* longest string given to parseUrlParts in the parser runs
MaxLen == 5
\* most calls of initUrlMonitor in one page in the monitor runs
MaxInits == 2
\* most calls of ensureOnce in one page in the ensureOnce runs
MaxOnceCalls == 4
\* most calls of show, hide and toggle and clicks on the overlay in the modal runs
MaxModalOps == 4

(***************************************************************************)
(* JavaScript string primitives                                            *)
(***************************************************************************)
StartsWith(s, p) == Len(p) <= Len(s) /\ SubSeq(s, 1, Len(p)) = p

EndsWith(s, p) == Len(p) <= Len(s) /\ SubSeq(s, Len(s) - Len(p) + 1, Len(s)) = p

Includes(s, p) == \E i \in 0..(Len(s) - Len(p)) : SubSeq(s, i + 1, i + Len(p)) = p

\* position of the first occurrence of character c in s, 0 when absent
IndexOf(s, c) ==
  IF \E i \in 1..Len(s) : s[i] = c
  THEN CHOOSE i \in 1..Len(s) : s[i] = c /\ \A j \in 1..(i - 1) : s[j] # c
  ELSE 0

\* position of the first character of s that belongs to cs, Len(s)+1 when none
FirstOf(s, cs) ==
  IF \E i \in 1..Len(s) : s[i] \in cs
  THEN CHOOSE i \in 1..Len(s) : s[i] \in cs /\ \A j \in 1..(i - 1) : s[j] \notin cs
  ELSE Len(s) + 1

RECURSIVE Split(_, _)
\* String.prototype.split with a one-character separator
Split(s, c) ==
  IF IndexOf(s, c) = 0
  THEN << s >>
  ELSE << SubSeq(s, 1, IndexOf(s, c) - 1) >> \o Split(SubSeq(s, IndexOf(s, c) + 1, Len(s)), c)

RECURSIVE Join(_, _)
\* Array.prototype.join with a one-character separator
Join(parts, c) ==
  IF Len(parts) = 0 THEN << >>
  ELSE IF Len(parts) = 1 THEN parts[1]
  ELSE parts[1] \o << c >> \o Join(Tail(parts), c)

\* Array.prototype.filter(Boolean) on an array of strings: drops the empty ones
FilterBoolean(parts) == SelectSeq(parts, LAMBDA p : p # << >>)

\* String.prototype.substring(1, length - 1)
StripEnds(s) == IF Len(s) <= 2 THEN << >> ELSE SubSeq(s, 2, Len(s) - 1)

(***************************************************************************)
(* new URL(url): the part of the URL parser the matcher depends on.        *)
(* A string is accepted when it is  https://host[path][?query][#fragment]  *)
(* with a non-empty host; anything else throws.  pathname is "/" when the  *)
(* path is empty; search and hash are empty when they have no content.     *)
(***************************************************************************)
Scheme == << "h", "t", "t", "p", "s", ":", "/", "/" >>

AfterScheme(url) == SubSeq(url, Len(Scheme) + 1, Len(url))

UrlThrows(url) ==
  \/ ~StartsWith(url, Scheme)
  \/ FirstOf(AfterScheme(url), {"/", "?", "#"}) = 1

UrlHostname(url) ==
  SubSeq(AfterScheme(url), 1, FirstOf(AfterScheme(url), {"/", "?", "#"}) - 1)

AfterHost(url) ==
  SubSeq(AfterScheme(url), FirstOf(AfterScheme(url), {"/", "?", "#"}), Len(AfterScheme(url)))

UrlPathname(url) ==
  LET rest == AfterHost(url)
      p    == SubSeq(rest, 1, FirstOf(rest, {"?", "#"}) - 1)
  IN  IF p = << >> THEN << "/" >> ELSE p

UrlSearch(url) ==
  LET rest == AfterHost(url)
      noh  == SubSeq(rest, 1, FirstOf(rest, {"#"}) - 1)
      q    == SubSeq(noh, FirstOf(noh, {"?"}), Len(noh))
  IN  IF Len(q) <= 1 THEN << >> ELSE q

UrlHash(url) ==
  LET rest == AfterHost(url)
      h    == SubSeq(rest, FirstOf(rest, {"#"}), Len(rest))
  IN  IF Len(h) <= 1 THEN << >> ELSE h

(***************************************************************************)
(* Route matcher                                                           *)
(***************************************************************************)
\* the value findHandlerForUrl returns when nothing matches
Null == "null"
\* a route written without a matchType property
Undefined == "undefined"

\* variant: a string without "?" is never split at "#"
NeverFallback(pathParts, url) == FALSE

\* if (pathParts.length === 1 && url.includes("#"))
UsesFallback(pathParts, url) == Len(pathParts) = 1 /\ Includes(url, << "#" >>)

parseUrlParts(url) ==
  LET pathParts     == Split(url, "?")
      queryAndHash  == IF Len(pathParts) > 1 THEN pathParts[2] ELSE << >>
      hashParts     == Split(queryAndHash, "#")
      fallback      == UsesFallback(pathParts, url)
      fullHashParts == Split(url, "#")
      path  == IF fallback THEN fullHashParts[1] ELSE pathParts[1]
      query == IF fallback THEN << >> ELSE hashParts[1]
      hash  == IF fallback THEN << "#" >> \o Join(Tail(fullHashParts), "#")
               ELSE IF Len(hashParts) > 1 THEN << "#" >> \o hashParts[2] ELSE << >>
  IN  [ path |-> path, query |-> query, hash |-> hash,
        fullPath |-> path \o (IF query # << >> THEN << "?" >> \o query ELSE << >>) \o hash ]

matchAllPages(routePath) == routePath = << "/" >>

matchExact(routePath, urlFullPath) == routePath = urlFullPath

matchPathExact(routePath, urlParts) ==
  LET normalizedRoutePath == IF EndsWith(routePath, << "/" >>)
                             THEN SubSeq(routePath, 1, Len(routePath) - 1) ELSE routePath
      normalizedUrlPath   == IF EndsWith(urlParts.path, << "/" >>)
                             THEN SubSeq(urlParts.path, 1, Len(urlParts.path) - 1)
                             ELSE urlParts.path
  IN  normalizedRoutePath = normalizedUrlPath

matchPathPrefix(routePath, urlParts) ==
  LET routeParts   == FilterBoolean(Split(routePath, "/"))
      urlPathParts == FilterBoolean(Split(urlParts.path, "/"))
  IN  /\ Len(urlPathParts) >= Len(routeParts)
      /\ \A i \in 1..Len(routeParts) : routeParts[i] = urlPathParts[i]

(***************************************************************************)
(* new RegExp(str) and RegExp.prototype.test for the patterns of the       *)
(* model: literal characters, "." (any character), a leading "^" and a     *)
(* trailing "$".  A "(" is never closed in these patterns, so a pattern    *)
(* that contains one does not compile.                                     *)
(***************************************************************************)
RegExpThrows(regexStr) == \E i \in 1..Len(regexStr) : regexStr[i] = "("

RegExpTest(regexStr, s) ==
  LET atStart == Len(regexStr) > 0 /\ regexStr[1] = "^"
      r1      == IF atStart THEN Tail(regexStr) ELSE regexStr
      atEnd   == Len(r1) > 0 /\ r1[Len(r1)] = "$"
      body    == IF atEnd THEN SubSeq(r1, 1, Len(r1) - 1) ELSE r1
  IN  \E i \in 1..(Len(s) - Len(body) + 1) :
        /\ atStart => i = 1
        /\ atEnd => i + Len(body) - 1 = Len(s)
        /\ \A k \in 1..Len(body) : body[k] = "." \/ body[k] = s[i + k - 1]

\* variant: matchRegex without its try/catch
RegexLetsThrow == FALSE

\* the try/catch of matchRegex turns an exception of new RegExp into false
RegexCatches == TRUE

matchRegex(routePath, urlFullPath) ==
  LET regexStr == StripEnds(routePath)
  IN  IF RegExpThrows(regexStr) THEN FALSE ELSE RegExpTest(regexStr, urlFullPath)

\* the predicate of the callback given to site.routes.find
routeMatches(route, fullPath) ==
  LET urlParts == parseUrlParts(fullPath)
  IN  IF matchAllPages(route.path) THEN TRUE
      ELSE IF route.matchType = "exact" THEN matchExact(route.path, fullPath)
      ELSE IF route.matchType = "pathExact" THEN matchPathExact(route.path, urlParts)
      ELSE IF route.matchType = "regex" THEN matchRegex(route.path, fullPath)
      ELSE matchPathPrefix(route.path, urlParts)

\* variant: the routes are searched from the end of the list
findMatchingRouteLast(site, fullPath) ==
  IF \E i \in 1..Len(site.routes) : routeMatches(site.routes[i], fullPath)
  THEN CHOOSE i \in 1..Len(site.routes) :
         /\ routeMatches(site.routes[i], fullPath)
         /\ \A j \in (i + 1)..Len(site.routes) : ~routeMatches(site.routes[j], fullPath)
  ELSE 0

\* Array.prototype.find over the routes of a site: index of the first match, 0 when none
findMatchingRoute(site, fullPath) ==
  IF \E i \in 1..Len(site.routes) : routeMatches(site.routes[i], fullPath)
  THEN CHOOSE i \in 1..Len(site.routes) :
         /\ routeMatches(site.routes[i], fullPath)
         /\ \A j \in 1..(i - 1) : ~routeMatches(site.routes[j], fullPath)
  ELSE 0

\* the predicate of the callback given to siteConfigs.find
siteMatches(site, hostname) ==
  \/ hostname = site.url
  \/ EndsWith(hostname, << "." >> \o site.url)
  \/ Includes(hostname, site.url)

\* variant: a host no entry matches falls back to the first entry
findSiteOrFirst(configs, hostname) ==
  IF \E i \in 1..Len(configs) : siteMatches(configs[i], hostname)
  THEN CHOOSE i \in 1..Len(configs) :
         /\ siteMatches(configs[i], hostname)
         /\ \A j \in 1..(i - 1) : ~siteMatches(configs[j], hostname)
  ELSE 1

\* variant: the registry is searched from the end
findSiteLast(configs, hostname) ==
  IF \E i \in 1..Len(configs) : siteMatches(configs[i], hostname)
  THEN CHOOSE i \in 1..Len(configs) :
         /\ siteMatches(configs[i], hostname)
         /\ \A j \in (i + 1)..Len(configs) : ~siteMatches(configs[j], hostname)
  ELSE 0

\* Array.prototype.find over the registry: index of the first match, 0 when none
findSite(configs, hostname) ==
  IF \E i \in 1..Len(configs) : siteMatches(configs[i], hostname)
  THEN CHOOSE i \in 1..Len(configs) :
         /\ siteMatches(configs[i], hostname)
         /\ \A j \in 1..(i - 1) : ~siteMatches(configs[j], hostname)
  ELSE 0

\* variant: findHandlerForUrl without its try/catch
LookupLetsThrow == FALSE

\* the try/catch of findHandlerForUrl turns every exception into the result null
LookupCatches == TRUE

\* the outcome of a call that ends with an exception instead of a value
Thrown == "thrown"

\* the exception of new RegExp leaves the callback of routes.find: never, matchRegex
\* wraps the construction and the test in try/catch
routeThrows(route, fullPath) ==
  /\ ~matchAllPages(route.path)
  /\ route.matchType = "regex"
  /\ RegExpThrows(StripEnds(route.path))
  /\ ~RegexCatches

\* the body of the try block of findHandlerForUrl: a handler, Null, or Thrown when
\* new URL or a rule evaluated by routes.find throws
lookup(configs, url) ==
  IF UrlThrows(url) THEN Thrown
  ELSE LET hostname == UrlHostname(url)
           fullPath == UrlPathname(url) \o UrlHash(url)
           s        == findSite(configs, hostname)
       IN  IF s = 0 THEN Null
           ELSE LET r         == findMatchingRoute(configs[s], fullPath)
                    evaluated == IF r = 0 THEN Len(configs[s].routes) ELSE r
                IN  IF \E k \in 1..evaluated : routeThrows(configs[s].routes[k], fullPath)
                    THEN Thrown
                    ELSE IF r = 0 THEN Null ELSE configs[s].routes[r].handler

findHandlerForUrl(configs, url) ==
  LET result == lookup(configs, url)
  IN  IF result = Thrown /\ LookupCatches THEN Null ELSE result

(***************************************************************************)
(* Content script: configuration, dispatch state, timers                   *)
(***************************************************************************)
URL_PROCESS_DELAY == 2000
URL_REPEAT_THRESHOLD == 2000

\* state.pendingUrl before the first signal (JavaScript null)
NullUrl == << "null" >>
\* state.urlChangeTimer when no handle is stored (JavaScript null)
NoTimer == 0

\* amounts of time (ms) that may pass between two events
TimeSteps == {500, 2000}
\* timers scheduled at MaxTime can still fire
Horizon == MaxTime + URL_PROCESS_DELAY

\* hosts, paths and URLs the page navigates to
HostBC == << "b", ".", "c" >>
UrlA1 == Scheme \o HostBC \o << "/", "a", "/", "1" >>
UrlA2 == Scheme \o HostBC \o << "/", "a", "/", "2" >>
UrlX == Scheme \o HostBC \o << "/", "x" >>
NavUrls == {UrlA1, UrlA2, UrlX}

\* a registry in the documented format: one site, one pathPrefix route
NavConfigs ==
  << [ url |-> HostBC,
       routes |-> << [ path |-> << "/", "a" >>, matchType |-> "pathPrefix", handler |-> "handleA" ] >> ] >>

VARIABLES
  now,           \* Date.now()
  state,         \* the content script's state object
  timers,        \* setTimeout timers scheduled and neither fired nor cleared
  timerSeq,      \* number of timers created so far; the next timer id is timerSeq + 1
  pc,            \* "idle", or "handler" while processUrlChange is inside handler(pageInfo)
  siteConfigs,   \* the registry of the site manager
  lastSignal,    \* history: url and time of the most recent raw signal, and the calls of
                 \* processUrlChange already made in its burst when it arrived
  lastCall,      \* history: the most recent call of processUrlChange
  burstCalls,    \* history: calls of processUrlChange since the current burst of signals began
  sigsSince,     \* history: raw signals since the dispatch that set lastProcessedUrl began
  findCalls,     \* history: number of calls of findHandlerForUrl by the content script
  handlerCalls,  \* history: number of handler invocations
  lastExit,      \* history: how the most recent handler invocation ended
  uncaught,      \* history: number of exceptions that escaped the timer callback
  probeUrl,      \* route-matcher runs: the URL given to findHandlerForUrl
  probeResult,   \* route-matcher runs: what findHandlerForUrl returned
  parseIn,       \* parser runs: the string given to parseUrlParts
  parseOut,      \* parser runs: << >>, or the object parseUrlParts returned, in a tuple
  href,          \* monitor runs: window.location.href
  hooks,         \* monitor runs: number of calls of initUrlMonitor made in the page
  lastOp,        \* monitor runs, history: the most recent operation and the calls of
                 \* onUrlChange it made
  lastMsg,       \* message runs, history: the most recent message delivered to the
                 \* onMessage listener and the replies sent for it; n alternates
                 \* between 0 and 1 with every message
  deps,          \* start-up runs: the loading of the site manager script and its
                 \* dependency polling
  stable,        \* DOM-stability runs: one call of waitForDOMStable, the page it watches
                 \* and the time since the call
  waiter,        \* element-wait runs: one call of waitForElement, the page it watches and
                 \* the time since the call; callbacks alternates with every observer callback
  once,          \* ensureOnce runs: the calls made, the runs of the code chained with then(),
                 \* the marker elements in the document and the live URL-check intervals, by identifier
  mon,           \* createElementMonitor runs: the options, whether the element is in the document, the monitor's
                 \* state variables, its timers, the appear callbacks registered and the last call of them
  modal,         \* CenterModal runs: options.onClose given or not, the class 'visible' and the inline display of the
                 \* overlay, the pending timers of hide, and the closings and calls of onClose counted
  wrap,          \* wired runs: the navigations that reached the coordinator, the calls of the native method in
                 \* the last history operation and the timers cancelled by clearTimeout, counted
  shipped,       \* shipped-registry runs: the URL last looked up and the results of the refactored matcher and
                 \* of the original matcher of siteManager.js for it
  manager,       \* site-manager runs: the start-up of siteManager.js (dependency polling, timeout, export of
                 \* window.SiteManager) next to the debounced dispatch of the content script
  tab,           \* tab runs: a tab loading a page, the notification of the background script, the start of the
                 \* content script and the debounced dispatch
  storage        \* StorageManager: the storage object of one site and one of its properties

navVars == << now, state, timers, timerSeq, pc, lastSignal, lastCall, burstCalls, sigsSince,
              findCalls, handlerCalls, lastExit, uncaught >>
probeVars == << probeUrl, probeResult >>
parseVars == << parseIn, parseOut >>
monVars == << href, hooks, lastOp >>
bridgeVars == << lastMsg >>
coreVars == << navVars, siteConfigs, probeVars, parseVars, monVars, bridgeVars >>
\* the variables of the runs of the start-up code and of the utility functions
utilVars == << deps, stable, waiter, once, mon, modal, wrap, shipped, manager, tab, storage >>
\* the utility variables a run of one of them leaves alone
exceptDeps == << stable, waiter, once, mon, modal, wrap, shipped, manager, tab, storage >>
exceptStable == << deps, waiter, once, mon, modal, wrap, shipped, manager, tab, storage >>
exceptWaiter == << deps, stable, once, mon, modal, wrap, shipped, manager, tab, storage >>
exceptOnce == << deps, stable, waiter, mon, modal, wrap, shipped, manager, tab, storage >>
exceptMon == << deps, stable, waiter, once, modal, wrap, shipped, manager, tab, storage >>
exceptModal == << deps, stable, waiter, once, mon, wrap, shipped, manager, tab, storage >>
exceptWrap == << deps, stable, waiter, once, mon, modal, shipped, manager, tab, storage >>
exceptShipped == << deps, stable, waiter, once, mon, modal, wrap, manager, tab, storage >>
exceptManager == << deps, stable, waiter, once, mon, modal, wrap, shipped, tab, storage >>
exceptTab == << deps, stable, waiter, once, mon, modal, wrap, shipped, manager, storage >>
exceptStorage == << deps, stable, waiter, once, mon, modal, wrap, shipped, manager, tab >>
vars == << now, state, timers, timerSeq, pc, siteConfigs, lastSignal, lastCall, burstCalls,
           sigsSince, findCalls, handlerCalls, lastExit, uncaught, probeUrl, probeResult,
           parseIn, parseOut, href, hooks, lastOp, lastMsg, deps, stable, waiter, once, mon, modal, wrap, shipped, manager, tab, storage >>

NotProbed == "not-called"

\* parseUrlParts has not been called on its own
ParseIdle == parseIn = << >> /\ parseOut = << >>

\* lastOp before any operation of the monitor runs
NoOp == [ name |-> "none", arg |-> "none", before |-> << >>, changes |-> << >>, threw |-> FALSE ]

\* the page is at UrlX and initUrlMonitor has not been called
MonIdle == href = UrlX /\ hooks = 0 /\ lastOp = NoOp

\* the site manager script has not been evaluated
NoDeps == [ phase |-> "unloaded", missing |-> {}, atStart |-> {}, clock |-> 0,
            waitLogs |-> 0, exported |-> FALSE, timedOut |-> FALSE ]

\* no timer scheduled
NoDue == -1

\* waitForDOMStable has not been called
NoStable == [ phase |-> "idle", waitTime |-> 0, timeout |-> 0, checkUrlChange |-> FALSE,
              clock |-> 0, urlSame |-> TRUE, observing |-> FALSE, stabDue |-> NoDue,
              timeoutDue |-> NoDue, lastMutationTime |-> 0, settles |-> 0,
              settledAt |-> NoDue, reason |-> "none" ]

\* waitForElement has not been called
NoWaiter == [ phase |-> "idle", timeout |-> 0, checkUrlChange |-> FALSE, clock |-> 0,
              urlSame |-> TRUE, present |-> FALSE, atCall |-> FALSE, observing |-> FALSE,
              timeoutDue |-> NoDue, callbacks |-> 0, settles |-> 0, settledAt |-> NoDue,
              reason |-> "none" ]

\* the identifiers Math.random gives to the markers of ensureOnce
RandIds == { "once_a", "once_b", "once_c" }

\* ensureOnce has not been called
NoOnce == [ calls |-> 0, runs |-> 0, markers |-> [ i \in RandIds |-> 0 ],
            watchers |-> [ i \in RandIds |-> 0 ] ]

\* no appear callback has been called
NoFire == [ at |-> NoDue, detected |-> NoDue, inDetect |-> FALSE ]

\* createElementMonitor has not been called
NoMonitor == [ phase |-> "none", optStable |-> 0, stableTime |-> 0, useObserver |-> FALSE,
               present |-> FALSE, isElementPresent |-> FALSE, isCallbackTriggered |-> FALSE,
               appearanceTime |-> 0, stableDue |-> NoDue, pollDue |-> NoDue, clock |-> 0,
               callbacks |-> << >>, disappearCallbacks |-> 0, fires |-> 0, lastFire |-> NoFire,
               afterStop |-> 0, everPresent |-> FALSE, late |-> FALSE, episodeAppears |-> 0,
               orphanDisappear |-> FALSE ]

\* no CenterModal has been constructed
NoModal == [ phase |-> "none", hasOnClose |-> FALSE, visible |-> FALSE, display |-> "",
             hideTimers |-> << >>, clock |-> 0, ops |-> 0, closings |-> 0,
             onCloseCalls |-> 0, reopened |-> FALSE, lastShow |-> FALSE,
             closedWhileShown |-> FALSE ]

\* no history operation went through the installed wrappers
NoWrap == [ navs |-> 0, native |-> 0, cancelled |-> 0 ]

\* neither matcher has been asked
NoShipped == [ url |-> << >>, refactored |-> "not-called", legacy |-> "not-called" ]

\* siteManager.js has not been evaluated and the page has not navigated
NoManager == [ phase |-> "unloaded", clock |-> 0, depsLoaded |-> FALSE, exported |-> FALSE,
               intervalLive |-> FALSE, timeoutDue |-> NoDue, initRuns |-> 0,
               timeoutErrors |-> 0, loadedAtTimeout |-> FALSE, timerDue |-> NoDue,
               pendingUrl |-> NullUrl, lastProcessedUrl |-> << >>, lastProcessTime |-> 0,
               signals |-> 0, invoked |-> {} ]

\* a tab that has begun to load a page; the content script has not run yet
NoTab == [ clock |-> 0, pageUrl |-> NullUrl, complete |-> FALSE, listening |-> FALSE,
           lost |-> 0, timerDue |-> NoDue, pendingUrl |-> NullUrl,
           lastProcessedUrl |-> << >>, lastProcessTime |-> 0, signals |-> 0, invoked |-> {} ]

\* the storage of one site before the first getStorage call; the fields follow one
\* property k: persisted in the store, memoryCache[k], the data read by loadData, the
\* saveData calls whose write has not reached the store yet
NoStorage == [ persisted |-> Undefined, inMap |-> FALSE, created |-> 0, memoryCache |-> Undefined,
               load |-> "none", data |-> Undefined, holders |-> 0, lastWrite |-> Undefined,
               saves |-> << >>,
               earlyResolved |-> FALSE, blankResolved |-> FALSE ]

\* none of the start-up and utility runs has begun
UtilIdle == deps = NoDeps /\ stable = NoStable /\ waiter = NoWaiter /\ once = NoOnce /\ mon = NoMonitor /\ modal = NoModal /\ wrap = NoWrap /\ shipped = NoShipped /\ manager = NoManager /\ tab = NoTab /\ storage = NoStorage
\* all utility runs but one have not begun
IdleExceptDeps == stable = NoStable /\ waiter = NoWaiter /\ once = NoOnce /\ mon = NoMonitor /\ modal = NoModal /\ wrap = NoWrap /\ shipped = NoShipped /\ manager = NoManager /\ tab = NoTab /\ storage = NoStorage
IdleExceptStable == deps = NoDeps /\ waiter = NoWaiter /\ once = NoOnce /\ mon = NoMonitor /\ modal = NoModal /\ wrap = NoWrap /\ shipped = NoShipped /\ manager = NoManager /\ tab = NoTab /\ storage = NoStorage
IdleExceptWaiter == deps = NoDeps /\ stable = NoStable /\ once = NoOnce /\ mon = NoMonitor /\ modal = NoModal /\ wrap = NoWrap /\ shipped = NoShipped /\ manager = NoManager /\ tab = NoTab /\ storage = NoStorage
IdleExceptOnce == deps = NoDeps /\ stable = NoStable /\ waiter = NoWaiter /\ mon = NoMonitor /\ modal = NoModal /\ wrap = NoWrap /\ shipped = NoShipped /\ manager = NoManager /\ tab = NoTab /\ storage = NoStorage
IdleExceptMon == deps = NoDeps /\ stable = NoStable /\ waiter = NoWaiter /\ once = NoOnce /\ modal = NoModal /\ wrap = NoWrap /\ shipped = NoShipped /\ manager = NoManager /\ tab = NoTab /\ storage = NoStorage
IdleExceptModal == deps = NoDeps /\ stable = NoStable /\ waiter = NoWaiter /\ once = NoOnce /\ mon = NoMonitor /\ wrap = NoWrap /\ shipped = NoShipped /\ manager = NoManager /\ tab = NoTab /\ storage = NoStorage
IdleExceptWrap == deps = NoDeps /\ stable = NoStable /\ waiter = NoWaiter /\ once = NoOnce /\ mon = NoMonitor /\ modal = NoModal /\ shipped = NoShipped /\ manager = NoManager /\ tab = NoTab /\ storage = NoStorage
IdleExceptShipped == deps = NoDeps /\ stable = NoStable /\ waiter = NoWaiter /\ once = NoOnce /\ mon = NoMonitor /\ modal = NoModal /\ wrap = NoWrap /\ manager = NoManager /\ tab = NoTab /\ storage = NoStorage
IdleExceptManager == deps = NoDeps /\ stable = NoStable /\ waiter = NoWaiter /\ once = NoOnce /\ mon = NoMonitor /\ modal = NoModal /\ wrap = NoWrap /\ shipped = NoShipped /\ tab = NoTab /\ storage = NoStorage
IdleExceptTab == deps = NoDeps /\ stable = NoStable /\ waiter = NoWaiter /\ once = NoOnce /\ mon = NoMonitor /\ modal = NoModal /\ wrap = NoWrap /\ shipped = NoShipped /\ manager = NoManager /\ storage = NoStorage
IdleExceptStorage == deps = NoDeps /\ stable = NoStable /\ waiter = NoWaiter /\ once = NoOnce /\ mon = NoMonitor /\ modal = NoModal /\ wrap = NoWrap /\ shipped = NoShipped /\ manager = NoManager /\ tab = NoTab

\* lastMsg before any message was delivered
NoMsg == [ action |-> "none", url |-> NullUrl, n |-> 0, replies |-> << >> ]
NoSignal == [ url |-> NullUrl, time |-> -1, early |-> 0 ]
\* url: the argument; latest, sigTime: the most recent signal at the call; sigs: sigsSince at
\* the call; seenUrl, seenTime: lastProcessedUrl and lastProcessTime as the call found them
NoCall ==
  [ url |-> NullUrl, time |-> -1, latest |-> NullUrl, sigTime |-> -1, sigs |-> 0,
    seenUrl |-> << >>, seenTime |-> 0, outcome |-> "no-call" ]

InitState ==
  [ lastProcessedUrl |-> << >>, lastProcessTime |-> 0,
    urlChangeTimer |-> NoTimer, pendingUrl |-> NullUrl ]

NavInit ==
  /\ now = 0
  /\ state = InitState
  /\ timers = {}
  /\ timerSeq = 0
  /\ pc = "idle"
  /\ lastSignal = NoSignal
  /\ lastCall = NoCall
  /\ burstCalls = 0
  /\ sigsSince = 0
  /\ findCalls = 0
  /\ handlerCalls = 0
  /\ lastExit = "none"
  /\ uncaught = 0

Init ==
  /\ NavInit
  /\ siteConfigs = NavConfigs
  /\ ParseIdle
  /\ MonIdle
  /\ lastMsg = NoMsg
  /\ UtilIdle
  /\ probeUrl = UrlX
  /\ probeResult = NotProbed

\* clearTimeout(id)
ClearTimeout(ts, id) == { t \in ts : t.id # id }

\* setTimeout(callback, delay) called at time `at`; the id returned is timerSeq + 1
SetTimeout(ts, at, delay) == ts \cup { [ id |-> timerSeq + 1, deadline |-> at + delay ] }

\* the timers left after the clearTimeout of handleUrlChange
TimersAfterClear ==
  IF state.urlChangeTimer # NoTimer THEN ClearTimeout(timers, state.urlChangeTimer) ELSE timers

\* variant: a signal that finds a timer scheduled keeps the URL already pending
PendingKeepsFirst(url) == IF state.urlChangeTimer # NoTimer THEN state.pendingUrl ELSE url

\* state.pendingUrl after handleUrlChange(url)
PendingAfterSignal(url) == url

\* a signal continues the current burst when it comes less than the delay after the previous one
ContinuesBurst == lastSignal # NoSignal /\ now - lastSignal.time < URL_PROCESS_DELAY

\* handleUrlChange(url)
handleUrlChange(url) ==
  /\ timerSeq < MaxSignals
  /\ now <= MaxTime
  /\ timers' = SetTimeout(TimersAfterClear, now, URL_PROCESS_DELAY)
  /\ timerSeq' = timerSeq + 1
  /\ state' = [ state EXCEPT !.pendingUrl = PendingAfterSignal(url),
                             !.urlChangeTimer = timerSeq + 1 ]
  /\ lastSignal' = [ url |-> url, time |-> now,
                      early |-> IF ContinuesBurst THEN burstCalls ELSE 0 ]
  /\ burstCalls' = IF ContinuesBurst THEN burstCalls ELSE 0
  /\ sigsSince' = sigsSince + 1
  /\ UNCHANGED << now, pc, siteConfigs, lastCall, findCalls, handlerCalls, lastExit, uncaught,
                  probeVars, parseVars, monVars, utilVars >>

\* the page calls the wrapped history.pushState / history.replaceState
HistoryMutation(u) ==
  /\ pc = "idle"
  /\ handleUrlChange(u)
  /\ UNCHANGED bridgeVars

\* the browser moved to another history entry and fires popstate
PopState(u) ==
  /\ pc = "idle"
  /\ handleUrlChange(u)
  /\ UNCHANGED bridgeVars

\* the background page's {action: 'urlChanged', url} message is delivered
UrlChangedMessage(u) ==
  /\ pc = "idle"
  /\ handleUrlChange(u)
  /\ UNCHANGED bridgeVars

\* variant: the duplicate test ignores the time since the last dispatch
IsRepeatAnyAge(url, t) == url = state.lastProcessedUrl

\* the duplicate test of processUrlChange
IsRepeat(url, t) ==
  url = state.lastProcessedUrl /\ (t - state.lastProcessTime) < URL_REPEAT_THRESHOLD

\* variant: the bookkeeping is done before the duplicate test
ProcessedBeforeTest(url, t) == [ state EXCEPT !.lastProcessedUrl = url, !.lastProcessTime = t ]

\* lastProcessedUrl and lastProcessTime after processUrlChange(url) called at time t
Processed(url, t) ==
  IF IsRepeat(url, t)
  THEN state
  ELSE [ state EXCEPT !.lastProcessedUrl = url, !.lastProcessTime = t ]

\* the argument the timer callback gives to processUrlChange
TimerArgument == state.pendingUrl

\* the timer callback up to the point where processUrlChange either returns or
\* is inside handler(pageInfo)
TimerFire ==
  /\ pc = "idle"
  /\ \E t \in timers :
       /\ t.deadline <= now
       /\ timers' = timers \ {t}
       /\ LET url == TimerArgument
              handler == findHandlerForUrl(siteConfigs, url)
              call(o) == [ url |-> url, time |-> now, latest |-> lastSignal.url,
                           sigTime |-> lastSignal.time, sigs |-> sigsSince,
                           seenUrl |-> state.lastProcessedUrl,
                           seenTime |-> state.lastProcessTime, outcome |-> o ]
          IN  IF IsRepeat(url, now)
              THEN /\ state' = [ Processed(url, now) EXCEPT !.urlChangeTimer = NoTimer ]
                   /\ lastCall' = call("dropped")
                   /\ UNCHANGED << pc, findCalls, handlerCalls, sigsSince >>
              ELSE /\ findCalls' = findCalls + 1
                   /\ sigsSince' = 0
                   /\ IF handler = Null
                      THEN /\ state' = [ Processed(url, now) EXCEPT !.urlChangeTimer = NoTimer ]
                           /\ lastCall' = call("none")
                           /\ UNCHANGED << pc, handlerCalls >>
                      ELSE /\ state' = Processed(url, now)
                           /\ lastCall' = call("invoked")
                           /\ handlerCalls' = handlerCalls + 1
                           /\ pc' = "handler"
  /\ burstCalls' = burstCalls + 1
  /\ UNCHANGED << now, timerSeq, siteConfigs, lastSignal, lastExit, uncaught, probeVars, parseVars, monVars, bridgeVars, utilVars >>

\* the running handler calls history.pushState / history.replaceState
HandlerHistoryMutation(u) ==
  /\ pc = "handler"
  /\ handleUrlChange(u)
  /\ UNCHANGED bridgeVars

\* variant: the handler is called outside the try block
HandlerErrorEscapes == FALSE

\* the try/catch of processUrlChange encloses the handler call
CatchesHandlerError == TRUE

\* the handler returns; processUrlChange returns; the callback clears the handle
HandlerReturn ==
  /\ pc = "handler"
  /\ pc' = "idle"
  /\ state' = [ state EXCEPT !.urlChangeTimer = NoTimer ]
  /\ lastExit' = "return"
  /\ UNCHANGED << now, timers, timerSeq, siteConfigs, lastSignal, lastCall, burstCalls,
                  sigsSince, findCalls, handlerCalls, uncaught, probeVars, parseVars, monVars, bridgeVars, utilVars >>

\* the handler throws
HandlerThrow ==
  /\ pc = "handler"
  /\ pc' = "idle"
  /\ lastExit' = "throw"
  /\ IF CatchesHandlerError
     THEN state' = [ state EXCEPT !.urlChangeTimer = NoTimer ] /\ uncaught' = uncaught
     ELSE state' = state /\ uncaught' = uncaught + 1
  /\ UNCHANGED << now, timers, timerSeq, siteConfigs, lastSignal, lastCall, burstCalls,
                  sigsSince, findCalls, handlerCalls, probeVars, parseVars, monVars, bridgeVars, utilVars >>

\* time passes while no callback runs
Tick(d) ==
  /\ pc = "idle"
  /\ now + d <= Horizon
  /\ now' = now + d
  /\ UNCHANGED << state, timers, timerSeq, pc, siteConfigs, lastSignal, lastCall, burstCalls,
                  sigsSince, findCalls, handlerCalls, lastExit, uncaught, probeVars, parseVars, monVars, bridgeVars, utilVars >>

Next ==
  \/ \E u \in NavUrls : HistoryMutation(u)
  \/ \E u \in NavUrls : PopState(u)
  \/ \E u \in NavUrls : UrlChangedMessage(u)
  \/ TimerFire
  \/ \E u \in NavUrls : HandlerHistoryMutation(u)
  \/ HandlerReturn
  \/ HandlerThrow
  \/ \E d \in TimeSteps : Tick(d)

Spec == Init /\ [][Next]_vars

(***************************************************************************)
(* Message runs: the chrome.runtime.onMessage listener of the content      *)
(* script with the replies it sends, the timers and the handlers.  The     *)
(* specification Spec above keeps only the signal of a message.            *)
(***************************************************************************)
Requests ==
  { [ action |-> "urlChanged", url |-> u ] : u \in NavUrls }
    \cup { [ action |-> "ping", url |-> UrlA1 ] }

\* variant: the listener does not look at request.action
ActsOnAny(request) == TRUE

\* if (request.action === 'urlChanged')
ActsOn(request) == request.action = "urlChanged"

\* clearTimeout, the two assignments and setTimeout of handleUrlChange do not throw
SetupThrows == FALSE

\* the listener given to chrome.runtime.onMessage.addListener
onMessage(request) ==
  /\ pc = "idle"
  /\ IF ActsOn(request)
     THEN /\ handleUrlChange(request.url)
          /\ lastMsg' = [ action |-> request.action, url |-> request.url, n |-> 1 - lastMsg.n,
                          replies |-> IF SetupThrows THEN << "error" >> ELSE << "received" >> ]
     ELSE /\ lastMsg' = [ action |-> request.action, url |-> request.url, n |-> 1 - lastMsg.n,
                          replies |-> << >> ]
          /\ UNCHANGED << navVars, siteConfigs, probeVars, parseVars, monVars, utilVars >>

BridgeNext ==
  \/ \E r \in Requests : onMessage(r)
  \/ TimerFire
  \/ HandlerReturn
  \/ HandlerThrow
  \/ \E d \in TimeSteps : Tick(d)

BridgeSpec == Init /\ [][BridgeNext]_vars

(***************************************************************************)
(* Route-matcher runs: findHandlerForUrl applied to generated registries   *)
(* and URLs.                                                               *)
(***************************************************************************)
RoutePrefixA == [ path |-> << "/", "a" >>, matchType |-> "pathPrefix", handler |-> "h1" ]
RouteAll == [ path |-> << "/" >>, matchType |-> Undefined, handler |-> "h2" ]
RouteExactAB == [ path |-> << "/", "a", "/", "b" >>, matchType |-> "exact", handler |-> "h3" ]
RoutePathExactX == [ path |-> << "/", "x", "/" >>, matchType |-> "pathExact", handler |-> "h4" ]
RoutePool == {RoutePrefixA, RouteAll, RouteExactAB, RoutePathExactX}

\* lists of at most MaxRoutes different rules
RouteLists ==
  UNION { { rl \in [1..n -> RoutePool] : \A i, j \in 1..n : i # j => rl[i] # rl[j] } : n \in 0..MaxRoutes }

SiteUrls == { HostBC, << "c" >> }
Sites == { [ url |-> h, routes |-> rl ] : h \in SiteUrls, rl \in RouteLists }
\* registries of one or two site entries
Registries == { << s >> : s \in Sites } \cup { << s1, s2 >> : s1 \in Sites, s2 \in Sites }

ProbeHosts ==
  { HostBC, << "a", ".", "b", ".", "c" >>, << "x", "b", ".", "c", "y" >>,
    << "c", ".", "d" >>, << "d", ".", "e" >> }
ProbePaths ==
  { << >>, << "/", "a" >>, << "/", "a", "/", "b" >>, << "/", "x" >>,
    << "/", "a", "/", "b", "?", "q", "#", "f" >> }
\* well-formed URLs, and one string new URL() rejects
ProbeUrls == { Scheme \o h \o p : h \in ProbeHosts, p \in ProbePaths } \cup { HostBC \o << "/", "a" >> }

ProbeInit ==
  /\ NavInit
  /\ ParseIdle
  /\ MonIdle
  /\ lastMsg = NoMsg
  /\ UtilIdle
  /\ siteConfigs \in Registries
  /\ probeUrl \in ProbeUrls
  /\ probeResult = NotProbed

\* a caller asks the site manager for the handler of probeUrl
CallFindHandler ==
  /\ probeResult = NotProbed
  /\ probeResult' = findHandlerForUrl(siteConfigs, probeUrl)
  /\ UNCHANGED << navVars, siteConfigs, probeUrl, parseVars, monVars, bridgeVars, utilVars >>

\* the next URL to look up
NextProbe(u) ==
  /\ probeResult # NotProbed
  /\ probeUrl' = u
  /\ probeResult' = NotProbed
  /\ UNCHANGED << navVars, siteConfigs, parseVars, monVars, bridgeVars, utilVars >>

ProbeNext ==
  \/ CallFindHandler
  \/ \E u \in ProbeUrls : NextProbe(u)

ProbeSpec == ProbeInit /\ [][ProbeNext]_vars

(***************************************************************************)
(* Rule runs: findHandlerForUrl applied to registries of one site whose    *)
(* rules are drawn from every match type, and to URLs with and without a   *)
(* query string and a fragment.                                            *)
(***************************************************************************)
RulePrefixA == [ path |-> << "/", "a" >>, matchType |-> "pathPrefix", handler |-> "r1" ]
RulePrefixAB == [ path |-> << "/", "a", "/", "b" >>, matchType |-> "pathPrefix", handler |-> "r2" ]
RuleDefaultA == [ path |-> << "/", "a" >>, matchType |-> Undefined, handler |-> "r3" ]
RuleExactA == [ path |-> << "/", "a" >>, matchType |-> "exact", handler |-> "r4" ]
RuleExactAQ == [ path |-> << "/", "a", "?", "q" >>, matchType |-> "exact", handler |-> "r5" ]
RulePathExactA == [ path |-> << "/", "a", "/" >>, matchType |-> "pathExact", handler |-> "r6" ]
RuleRootAll == [ path |-> << "/" >>, matchType |-> Undefined, handler |-> "r7" ]
RuleRootExact == [ path |-> << "/" >>, matchType |-> "exact", handler |-> "r8" ]
RuleRootPathExact == [ path |-> << "/" >>, matchType |-> "pathExact", handler |-> "r9" ]
RuleRegexBad == [ path |-> << "/", "(", "/" >>, matchType |-> "regex", handler |-> "r10" ]
RuleRegexA == [ path |-> << "/", "^", "/", "a", "$", "/" >>, matchType |-> "regex", handler |-> "r11" ]
RulePool ==
  { RulePrefixA, RulePrefixAB, RuleDefaultA, RuleExactA, RuleExactAQ, RulePathExactA,
    RuleRootAll, RuleRootExact, RuleRootPathExact, RuleRegexBad, RuleRegexA }

\* lists of at most MaxRoutes different rules
RuleLists ==
  UNION { { rl \in [1..n -> RulePool] : \A i, j \in 1..n : i # j => rl[i] # rl[j] } : n \in 0..MaxRoutes }

RuleRegistries == { << [ url |-> HostBC, routes |-> rl ] >> : rl \in RuleLists }

RulePaths ==
  { << >>, << "/" >>, << "/", "a" >>, << "/", "a", "/" >>, << "/", "a", "b" >>,
    << "/", "a", "/", "b" >>, << "/", "x" >>,
    << "/", "a", "?", "q" >>, << "/", "a", "?", "q", "#", "f" >>,
    << "/", "a", "#", "f" >>, << "/", "a", "#", "f", "?", "q" >> }
\* well-formed URLs of the site, and one string new URL() rejects
RuleUrls == { Scheme \o HostBC \o p : p \in RulePaths } \cup { HostBC \o << "/", "a" >> }

RuleInit ==
  /\ NavInit
  /\ ParseIdle
  /\ MonIdle
  /\ lastMsg = NoMsg
  /\ UtilIdle
  /\ siteConfigs \in RuleRegistries
  /\ probeUrl \in RuleUrls
  /\ probeResult = NotProbed

RuleNext ==
  \/ CallFindHandler
  \/ \E u \in RuleUrls : NextProbe(u)

RuleSpec == RuleInit /\ [][RuleNext]_vars

(***************************************************************************)
(* Parser runs: parseUrlParts applied to generated strings.                *)
(***************************************************************************)
ParseChars == { "a", "?", "#" }
\* the pathname and hash of the URL https://x/a#/b, as findHandlerForUrl joins them
ExampleFullPath ==
  UrlPathname(Scheme \o << "x", "/", "a", "#", "/", "b" >>)
    \o UrlHash(Scheme \o << "x", "/", "a", "#", "/", "b" >>)
ParseInputs == UNION { [1..n -> ParseChars] : n \in 0..MaxLen } \cup { ExampleFullPath }

ParseInit ==
  /\ NavInit
  /\ MonIdle
  /\ lastMsg = NoMsg
  /\ UtilIdle
  /\ siteConfigs = NavConfigs
  /\ probeUrl = UrlX
  /\ probeResult = NotProbed
  /\ parseIn \in ParseInputs
  /\ parseOut = << >>

CallParseUrlParts ==
  /\ parseOut = << >>
  /\ parseOut' = << parseUrlParts(parseIn) >>
  /\ UNCHANGED << navVars, siteConfigs, probeVars, parseIn, monVars, bridgeVars, utilVars >>

\* the next string to parse
NextParse(s) ==
  /\ parseOut # << >>
  /\ parseIn' = s
  /\ parseOut' = << >>
  /\ UNCHANGED << navVars, siteConfigs, probeVars, monVars, bridgeVars, utilVars >>

ParseNext ==
  \/ CallParseUrlParts
  \/ \E s \in ParseInputs : NextParse(s)

ParseSpec == ParseInit /\ [][ParseNext]_vars

(***************************************************************************)
(* Monitor runs: initUrlMonitor and the history operations of a page, with *)
(* the calls of the onUrlChange callback recorded.  The specification Spec *)
(* above takes the URL of each such call as an input instead.              *)
(***************************************************************************)
\* a URL of another origin than the page
UrlForeign == Scheme \o << "e", ".", "f", "/", "x" >>
PushUrls == NavUrls \cup { UrlForeign }

\* the values a caller passes as checkImmediately; Undefined when the argument is omitted
ImmediateArgs == { "true", "false", Undefined }

\* variant: an omitted checkImmediately counts as true
DefaultsToTrue(arg) == IF arg # Undefined THEN arg ELSE "true"

\* checkImmediately = checkImmediately !== undefined ? checkImmediately : false
CheckImmediately(arg) == IF arg # Undefined THEN arg ELSE "false"

\* the native pushState and replaceState throw for a URL of another origin
NativeRejects(u) == UrlHostname(u) # UrlHostname(href)

\* variant: the wrapper reads location.href before it calls the original method
HrefBeforeMutation(before, after) == before

\* the wrapper reads window.location.href after the original method returned
OnChangeArg(before, after) == after

\* every installed wrapper or listener calls its onUrlChange once, innermost first
OnChangeCalls(n, url) == [ i \in 1..n |-> url ]

initUrlMonitor(checkImmediately) ==
  /\ hooks < MaxInits
  /\ hooks' = hooks + 1
  /\ href' = href
  /\ lastOp' = [ name |-> "init", arg |-> checkImmediately, before |-> href,
                 changes |-> IF CheckImmediately(checkImmediately) = "true"
                             THEN << href >> ELSE << >>,
                 threw |-> FALSE ]
  /\ UNCHANGED << navVars, siteConfigs, probeVars, parseVars, bridgeVars, utilVars >>

\* a call of history.pushState or history.replaceState as the page sees it: through the
\* installed wrappers down to the native method, then each wrapper's onUrlChange
HistoryCall(name, u) ==
  /\ IF NativeRejects(u)
     THEN /\ href' = href
          /\ lastOp' = [ name |-> name, arg |-> "none", before |-> href,
                         changes |-> << >>, threw |-> TRUE ]
     ELSE /\ href' = u
          /\ lastOp' = [ name |-> name, arg |-> "none", before |-> href,
                         changes |-> OnChangeCalls(hooks, OnChangeArg(href, u)),
                         threw |-> FALSE ]
  /\ UNCHANGED << hooks, navVars, siteConfigs, probeVars, parseVars, bridgeVars, utilVars >>

PushState(u) == HistoryCall("pushState", u)

ReplaceState(u) == HistoryCall("replaceState", u)

\* the browser moves to the history entry u and dispatches popstate to the listeners
PopStateEvent(u) ==
  /\ href' = u
  /\ lastOp' = [ name |-> "popstate", arg |-> "none", before |-> href,
                 changes |-> OnChangeCalls(hooks, u), threw |-> FALSE ]
  /\ UNCHANGED << hooks, navVars, siteConfigs, probeVars, parseVars, bridgeVars, utilVars >>

MonitorInit ==
  /\ NavInit
  /\ ParseIdle
  /\ siteConfigs = NavConfigs
  /\ probeUrl = UrlX
  /\ probeResult = NotProbed
  /\ href \in NavUrls
  /\ hooks = 0
  /\ lastOp = NoOp
  /\ lastMsg = NoMsg
  /\ UtilIdle

MonitorNext ==
  \/ \E c \in ImmediateArgs : initUrlMonitor(c)
  \/ \E u \in PushUrls : PushState(u)
  \/ \E u \in PushUrls : ReplaceState(u)
  \/ \E u \in NavUrls : PopStateEvent(u)

MonitorSpec == MonitorInit /\ [][MonitorNext]_vars

(***************************************************************************)
(* Start-up runs: the evaluation of the site manager script and the        *)
(* polling of waitForDependencies, for the dependencies StorageManager     *)
(* (read as a property of window) and handleAndfleet (also read as a bare  *)
(* identifier in siteConfigs).                                             *)
(***************************************************************************)
\* nothing has happened in the coordinator, matcher, parser, monitor and message runs
CoreIdle ==
  /\ NavInit
  /\ ParseIdle
  /\ MonIdle
  /\ lastMsg = NoMsg
  /\ siteConfigs = NavConfigs
  /\ probeUrl = UrlX
  /\ probeResult = NotProbed

DepNames == { "StorageManager", "handleAndfleet" }
\* setTimeout(check, 100)
DEP_POLL_INTERVAL == 100
\* waitForDependencies(10000)
DEP_TIMEOUT == 10000
\* the polling is followed until shortly after the timeout
DepHorizon == DEP_TIMEOUT + 5 * DEP_POLL_INTERVAL

\* the "waiting for dependencies" lines one call of checkDependencies logs
WaitLines(missing) == IF missing = {} THEN 0 ELSE 1

DepInit ==
  /\ CoreIdle
  /\ IdleExceptDeps
  /\ \E m \in SUBSET DepNames : deps = [ NoDeps EXCEPT !.missing = m, !.atStart = m ]

\* the script is evaluated: siteConfigs, the export of window.SiteManager, the first
\* checkDependencies and, when something is missing, waitForDependencies with its first check
LoadSiteManager ==
  /\ deps.phase = "unloaded"
  /\ deps' = IF "handleAndfleet" \in deps.missing
             THEN [ deps EXCEPT !.phase = "aborted" ]
             ELSE IF deps.missing = {}
             THEN [ deps EXCEPT !.phase = "ready", !.exported = TRUE ]
             ELSE [ deps EXCEPT !.phase = "polling", !.exported = TRUE,
                                !.waitLogs = WaitLines(deps.missing) + WaitLines(deps.missing) ]
  /\ UNCHANGED << coreVars, exceptDeps >>

\* the timer of setTimeout(check, 100) fires
PollDependencies ==
  /\ deps.phase = "polling"
  /\ deps.clock + DEP_POLL_INTERVAL <= DepHorizon
  /\ deps.clock + DEP_POLL_INTERVAL > DEP_TIMEOUT => deps.timedOut
  /\ deps' = [ deps EXCEPT !.clock = deps.clock + DEP_POLL_INTERVAL,
                           !.waitLogs = deps.waitLogs + WaitLines(deps.missing),
                           !.phase = IF deps.missing = {} THEN "ready" ELSE "polling" ]
  /\ UNCHANGED << coreVars, exceptDeps >>

\* the timer of the timeout promise fires: Promise.race settles, the polling goes on
DependencyTimeout ==
  /\ deps.phase = "polling"
  /\ deps.clock >= DEP_TIMEOUT
  /\ ~deps.timedOut
  /\ deps' = [ deps EXCEPT !.timedOut = TRUE ]
  /\ UNCHANGED << coreVars, exceptDeps >>

\* the script that defines window[d] is evaluated between two polls
DependencyLoads(d) ==
  /\ deps.phase = "polling"
  /\ d \in deps.missing
  /\ deps' = [ deps EXCEPT !.missing = deps.missing \ {d} ]
  /\ UNCHANGED << coreVars, exceptDeps >>

DepNext ==
  \/ LoadSiteManager
  \/ PollDependencies
  \/ DependencyTimeout
  \/ \E d \in DepNames : DependencyLoads(d)

DepSpec == DepInit /\ [][DepNext]_vars

(***************************************************************************)
(* DOM-stability runs: one call of waitForDOMStable(waitTime, timeout,     *)
(* options), the mutations and URL changes of the page, and its two        *)
(* timers.  stable.clock is the time since the call; a timer fires when    *)
(* its delay has passed, before the clock goes on.                         *)
(***************************************************************************)
WaitTimes == { 1000, 1500 }
StableTimeouts == { 1500, 3000 }
StableStep == 500
StableHorizon == 4000

StableInit ==
  /\ CoreIdle
  /\ IdleExceptStable
  /\ stable = NoStable

\* new Promise(...) of waitForDOMStable: target check, timeout timer, observe, stability timer
waitForDOMStable(waitTime, timeout, target, checkUrlChange) ==
  /\ stable.phase = "idle"
  /\ stable' = IF ~target
               THEN [ stable EXCEPT !.phase = "rejected", !.waitTime = waitTime,
                                    !.timeout = timeout, !.checkUrlChange = checkUrlChange,
                                    !.settles = 1, !.settledAt = 0, !.reason = "no-target" ]
               ELSE [ stable EXCEPT !.phase = "waiting", !.waitTime = waitTime,
                                    !.timeout = timeout, !.checkUrlChange = checkUrlChange,
                                    !.observing = TRUE, !.timeoutDue = timeout,
                                    !.stabDue = waitTime ]
  /\ UNCHANGED << coreVars, exceptStable >>

\* cleanup(): observer.disconnect(), clearTimeout(stabTimer), clearTimeout(timeoutTimer)
StableCleanup(st) == [ st EXCEPT !.observing = FALSE, !.stabDue = NoDue, !.timeoutDue = NoDue ]

\* variant: a mutation leaves the running stability timer as it is
StabKept(st) == st.stabDue

\* the stability timer after the observer callback: cleared and set again
StabReset(st) == st.clock + st.waitTime

\* the page's DOM changes; the MutationObserver callback runs while the observer is connected
DomMutation ==
  /\ stable.phase # "idle"
  /\ stable.observing
  /\ stable' = [ stable EXCEPT !.lastMutationTime = stable.clock, !.stabDue = StabReset(stable) ]
  /\ UNCHANGED << coreVars, exceptStable >>

\* the page moves to another URL, or back to the URL it had at the call
StableUrlChange ==
  /\ stable.phase = "waiting"
  /\ stable' = [ stable EXCEPT !.urlSame = ~stable.urlSame ]
  /\ UNCHANGED << coreVars, exceptStable >>

\* the callback of setStabilityTimer
StabilityTimerFires ==
  /\ stable.stabDue # NoDue
  /\ stable.stabDue <= stable.clock
  /\ stable.timeoutDue = NoDue \/ stable.stabDue < stable.timeoutDue
  /\ stable' = IF stable.checkUrlChange /\ ~stable.urlSame
               THEN [ StableCleanup(stable) EXCEPT !.phase = "rejected", !.reason = "url",
                        !.settles = stable.settles + 1, !.settledAt = stable.clock ]
               ELSE [ StableCleanup(stable) EXCEPT !.phase = "resolved", !.reason = "stable",
                        !.settles = stable.settles + 1, !.settledAt = stable.clock ]
  /\ UNCHANGED << coreVars, exceptStable >>

\* the callback of the timeout timer
StableTimeoutFires ==
  /\ stable.timeoutDue # NoDue
  /\ stable.timeoutDue <= stable.clock
  /\ stable' = [ StableCleanup(stable) EXCEPT !.phase = "rejected", !.reason = "timeout",
                   !.settles = stable.settles + 1, !.settledAt = stable.clock ]
  /\ UNCHANGED << coreVars, exceptStable >>

StableTick ==
  /\ stable.phase # "idle"
  /\ stable.clock + StableStep <= StableHorizon
  /\ stable.stabDue = NoDue \/ stable.stabDue > stable.clock
  /\ stable.timeoutDue = NoDue \/ stable.timeoutDue > stable.clock
  /\ stable' = [ stable EXCEPT !.clock = stable.clock + StableStep ]
  /\ UNCHANGED << coreVars, exceptStable >>

StableNext ==
  \/ \E w \in WaitTimes, t \in StableTimeouts, tg \in BOOLEAN, c \in BOOLEAN :
       waitForDOMStable(w, t, tg, c)
  \/ DomMutation
  \/ StableUrlChange
  \/ StabilityTimerFires
  \/ StableTimeoutFires
  \/ StableTick

StableSpec == StableInit /\ [][StableNext]_vars

(***************************************************************************)
(* Element-wait runs: one call of waitForElement(selector, timeout,        *)
(* options), the page's mutations and URL changes, and the timeout timer.  *)
(* waiter.present says whether document.querySelector(selector) finds an  *)
(* element; waiter.clock is the time since the call.                       *)
(***************************************************************************)
ElemTimeouts == { 1000, 2000 }
ElemStep == 500
ElemHorizon == 3000

ElemInit ==
  /\ CoreIdle
  /\ IdleExceptWaiter
  /\ \E p \in BOOLEAN : waiter = [ NoWaiter EXCEPT !.present = p ]

\* new Promise(...) of waitForElement: immediate check, timeout timer, observe
waitForElement(timeout, checkUrlChange) ==
  /\ waiter.phase = "idle"
  /\ waiter' = IF waiter.present
               THEN [ waiter EXCEPT !.phase = "resolved", !.timeout = timeout,
                                    !.checkUrlChange = checkUrlChange, !.atCall = TRUE,
                                    !.settles = 1, !.settledAt = 0, !.reason = "exists" ]
               ELSE [ waiter EXCEPT !.phase = "waiting", !.timeout = timeout,
                                    !.checkUrlChange = checkUrlChange,
                                    !.observing = TRUE, !.timeoutDue = timeout ]
  /\ UNCHANGED << coreVars, exceptWaiter >>

\* variant: cleanup() leaves the timeout timer scheduled
ElemCleanupKeepsTimer(w) == [ w EXCEPT !.observing = FALSE ]

\* cleanup(): observer.disconnect(), clearTimeout(timeoutTimer)
ElemCleanup(w) == [ w EXCEPT !.observing = FALSE, !.timeoutDue = NoDue ]

\* the MutationObserver callback of waitForElement, run on the page w
ElemObserved(w) ==
  LET c == [ w EXCEPT !.callbacks = 1 - w.callbacks ]
  IN  IF c.checkUrlChange /\ ~c.urlSame
      THEN [ ElemCleanup(c) EXCEPT !.phase = "rejected", !.reason = "url",
               !.settles = c.settles + 1, !.settledAt = c.clock ]
      ELSE IF c.present
      THEN [ ElemCleanup(c) EXCEPT !.phase = "resolved", !.reason = "appeared",
               !.settles = c.settles + 1, !.settledAt = c.clock ]
      ELSE c

\* nodes are added to or removed from the page, after which the element exists (p) or not;
\* the observer, connected with childList and subtree, is told
ChildListMutation(p) ==
  /\ waiter.phase # "idle"
  /\ waiter' = IF waiter.observing
               THEN ElemObserved([ waiter EXCEPT !.present = p ])
               ELSE [ waiter EXCEPT !.present = p ]
  /\ UNCHANGED << coreVars, exceptWaiter >>

\* an attribute change makes the selector match or not; the observer is not told
AttributeMutation(p) ==
  /\ waiter.phase # "idle"
  /\ waiter' = [ waiter EXCEPT !.present = p ]
  /\ UNCHANGED << coreVars, exceptWaiter >>

\* the page moves to another URL, or back to the URL it had at the call
ElemUrlChange ==
  /\ waiter.phase = "waiting"
  /\ waiter' = [ waiter EXCEPT !.urlSame = ~waiter.urlSame ]
  /\ UNCHANGED << coreVars, exceptWaiter >>

\* the callback of the timeout timer
ElemTimeoutFires ==
  /\ waiter.timeoutDue # NoDue
  /\ waiter.timeoutDue <= waiter.clock
  /\ waiter' = IF waiter.phase # "waiting"
               THEN [ waiter EXCEPT !.timeoutDue = NoDue ]
               ELSE [ ElemCleanup(waiter) EXCEPT !.phase = "rejected", !.reason = "timeout",
                        !.timeoutDue = NoDue,
                        !.settles = waiter.settles + 1, !.settledAt = waiter.clock ]
  /\ UNCHANGED << coreVars, exceptWaiter >>

ElemTick ==
  /\ waiter.phase # "idle"
  /\ waiter.clock + ElemStep <= ElemHorizon
  /\ waiter.timeoutDue = NoDue \/ waiter.timeoutDue > waiter.clock
  /\ waiter' = [ waiter EXCEPT !.clock = waiter.clock + ElemStep ]
  /\ UNCHANGED << coreVars, exceptWaiter >>

ElemNext ==
  \/ \E t \in ElemTimeouts, c \in BOOLEAN : waitForElement(t, c)
  \/ \E p \in BOOLEAN : ChildListMutation(p)
  \/ \E p \in BOOLEAN : AttributeMutation(p)
  \/ ElemUrlChange
  \/ ElemTimeoutFires
  \/ ElemTick

ElemSpec == ElemInit /\ [][ElemNext]_vars

(***************************************************************************)
(* ensureOnce runs: calls of ensureOnce().then(f) in one page, the marker  *)
(* elements they append to document.body and their setInterval timers.     *)
(***************************************************************************)
OnceInit ==
  /\ CoreIdle
  /\ IdleExceptOnce
  /\ once = NoOnce

\* ensureOnce().then(f), with randId = id: the marker is appended, the interval is
\* started, the promise resolves and f runs
ensureOnce(id) ==
  /\ once.calls < MaxOnceCalls
  /\ once' = [ once EXCEPT !.calls = once.calls + 1,
                           !.runs = once.runs + 1,
                           !.markers[id] = once.markers[id] + 1,
                           !.watchers[id] = once.watchers[id] + 1 ]
  /\ UNCHANGED << coreVars, exceptOnce >>

\* the page removes a marker element (a re-render of document.body)
MarkerRemoved(id) ==
  /\ once.markers[id] > 0
  /\ once' = [ once EXCEPT !.markers[id] = once.markers[id] - 1 ]
  /\ UNCHANGED << coreVars, exceptOnce >>

\* marker.cleanup()
MarkerCleanup(id) ==
  /\ once.markers[id] > 0
  /\ once.watchers[id] > 0
  /\ once' = [ once EXCEPT !.markers[id] = once.markers[id] - 1,
                           !.watchers[id] = once.watchers[id] - 1 ]
  /\ UNCHANGED << coreVars, exceptOnce >>

\* the setInterval callback of a marker with identifier id: clearInterval when no
\* element with that identifier is left
UrlCheckInterval(id) ==
  /\ once.watchers[id] > 0
  /\ once.markers[id] = 0
  /\ once' = [ once EXCEPT !.watchers[id] = once.watchers[id] - 1 ]
  /\ UNCHANGED << coreVars, exceptOnce >>

OnceNext ==
  \/ \E id \in RandIds : ensureOnce(id)
  \/ \E id \in RandIds : MarkerRemoved(id)
  \/ \E id \in RandIds : MarkerCleanup(id)
  \/ \E id \in RandIds : UrlCheckInterval(id)

OnceSpec == OnceInit /\ [][OnceNext]_vars

(***************************************************************************)
(* createElementMonitor runs: one monitor, the element appearing in and    *)
(* disappearing from the document, the polling interval, the stability     *)
(* timer and the registration of callbacks.  mon.callbacks is the array     *)
(* appearCallbacks: one entry per callback, TRUE for a callback that calls  *)
(* monitor.stop().                                                          *)
(***************************************************************************)
\* values of options.stableTime
OptStableTimes == { 0, 100, 200 }
\* options.checkInterval
CheckInterval == 300
MonStep == 100
MonHorizon == 600

\* var stableTime = options.stableTime || 100
EffectiveStableTime(opt) == IF opt = 0 THEN 100 ELSE opt

ElemMonInit ==
  /\ CoreIdle
  /\ IdleExceptMon
  /\ \E p \in BOOLEAN : mon = [ NoMonitor EXCEPT !.present = p ]

\* the body of stopMonitoring: timers and observer released, the callback arrays replaced
\* by new empty arrays
Stopped(m) ==
  [ m EXCEPT !.phase = "stopped", !.pollDue = NoDue, !.stableDue = NoDue,
             !.callbacks = << >>, !.disappearCallbacks = 0 ]

\* one appear callback is called; stops: it calls monitor.stop()
Called(m, stops) ==
  LET c == [ m EXCEPT !.afterStop = IF m.phase = "stopped" THEN m.afterStop + 1
                                                            ELSE m.afterStop ]
  IN IF stops THEN Stopped(c) ELSE c

\* forEach over the array it was started on: replacing appearCallbacks inside a callback
\* does not shorten the batch
RECURSIVE RunBatch(_, _)
RunBatch(m, batch) ==
  IF batch = << >> THEN m ELSE RunBatch(Called(m, Head(batch)), Tail(batch))

\* an appear notification is under way
Noted(m, inDetect) ==
  [ m EXCEPT !.fires = 1 - m.fires,
             !.episodeAppears = m.episodeAppears + 1,
             !.lastFire = [ at |-> m.clock, detected |-> m.appearanceTime,
                            inDetect |-> inDetect ] ]

\* appearCallbacks.forEach(callback => callback(element))
FireAppear(m, inDetect) ==
  IF m.callbacks # << >>
  THEN RunBatch(Noted(m, inDetect), m.callbacks)
  ELSE m

checkElement(m) ==
  IF m.present # m.isElementPresent
  THEN IF m.present
       THEN IF m.stableTime > 0
            THEN [ m EXCEPT !.isElementPresent = TRUE,
                            !.appearanceTime = m.clock,
                            !.isCallbackTriggered = FALSE,
                            !.stableDue = m.clock + m.stableTime,
                            !.everPresent = TRUE,
                            !.episodeAppears = 0 ]
            ELSE FireAppear([ m EXCEPT !.isElementPresent = TRUE,
                                       !.appearanceTime = m.clock,
                                       !.isCallbackTriggered = TRUE,
                                       !.everPresent = TRUE,
                                       !.episodeAppears = 0 ], TRUE)
       ELSE [ m EXCEPT !.isElementPresent = FALSE,
                       !.stableDue = NoDue,
                       !.isCallbackTriggered = FALSE,
                       !.orphanDisappear = \/ m.orphanDisappear
                                           \/ m.disappearCallbacks > 0 /\ m.episodeAppears = 0 ]
  ELSE IF m.isElementPresent /\ ~m.isCallbackTriggered /\ m.stableTime > 0
       THEN IF m.clock - m.appearanceTime >= m.stableTime
            THEN FireAppear([ m EXCEPT !.isCallbackTriggered = TRUE ], FALSE)
            ELSE m
       ELSE m

\* createElementMonitor(selector, { stableTime: opt, useMutationObserver: useObserver })
createElementMonitor(opt, useObserver) ==
  /\ mon.phase = "none"
  /\ mon' = [ checkElement([ mon EXCEPT !.phase = "running",
                                        !.optStable = opt,
                                        !.stableTime = EffectiveStableTime(opt),
                                        !.useObserver = useObserver ])
                EXCEPT !.pollDue = mon.clock + CheckInterval ]
  /\ UNCHANGED << coreVars, exceptMon >>

\* most callbacks registered with onAppear
MonCallbacks == 2

\* monitor.onAppear(callback); stops: the callback calls monitor.stop()
onAppear(stops) ==
  /\ mon.phase = "running"
  /\ Len(mon.callbacks) < MonCallbacks
  /\ LET m == [ mon EXCEPT !.callbacks = Append(mon.callbacks, stops),
                           !.late = mon.late \/ mon.everPresent ]
     IN mon' = IF m.isElementPresent /\ m.isCallbackTriggered /\ m.present
               THEN Called(Noted(m, FALSE), stops)
               ELSE m
  /\ UNCHANGED << coreVars, exceptMon >>

\* monitor.onDisappear(callback)
onDisappear ==
  /\ mon.phase = "running"
  /\ mon.disappearCallbacks = 0
  /\ mon' = [ mon EXCEPT !.disappearCallbacks = 1, !.late = mon.late \/ mon.everPresent ]
  /\ UNCHANGED << coreVars, exceptMon >>

\* the page adds or removes the element; the MutationObserver callback, when there is
\* one, calls checkElement
ElementToggled ==
  /\ mon.phase # "stopped"
  /\ LET m == [ mon EXCEPT !.present = ~mon.present ]
     IN mon' = IF m.phase = "running" /\ m.useObserver THEN checkElement(m) ELSE m
  /\ UNCHANGED << coreVars, exceptMon >>

\* setInterval(checkElement, checkInterval)
PollFires ==
  /\ mon.phase = "running"
  /\ mon.pollDue = mon.clock
  /\ LET m == checkElement(mon)
     IN mon' = IF m.phase = "stopped" THEN m
               ELSE [ m EXCEPT !.pollDue = mon.clock + CheckInterval ]
  /\ UNCHANGED << coreVars, exceptMon >>

\* the callback of the stability timer
StableTimerFires ==
  /\ mon.phase = "running"
  /\ mon.stableDue = mon.clock
  /\ LET m == [ mon EXCEPT !.stableDue = NoDue ]
     IN mon' = IF m.present /\ ~m.isCallbackTriggered
               THEN FireAppear([ m EXCEPT !.isCallbackTriggered = TRUE ], FALSE)
               ELSE m
  /\ UNCHANGED << coreVars, exceptMon >>

\* monitor.stop()
stopMonitoring ==
  /\ mon.phase = "running"
  /\ mon' = Stopped(mon)
  /\ UNCHANGED << coreVars, exceptMon >>

ElemMonTick ==
  /\ mon.clock + MonStep <= MonHorizon
  /\ mon.pollDue # mon.clock
  /\ mon.stableDue # mon.clock
  /\ mon' = [ mon EXCEPT !.clock = mon.clock + MonStep ]
  /\ UNCHANGED << coreVars, exceptMon >>

ElemMonNext ==
  \/ \E opt \in OptStableTimes, useObserver \in BOOLEAN : createElementMonitor(opt, useObserver)
  \/ \E stops \in BOOLEAN : onAppear(stops)
  \/ onDisappear
  \/ ElementToggled
  \/ PollFires
  \/ StableTimerFires
  \/ stopMonitoring
  \/ ElemMonTick

ElemMonSpec == ElemMonInit /\ [][ElemMonNext]_vars

(***************************************************************************)
(* CenterModal runs: one modal, shown and hidden through show, hide and    *)
(* toggle and through clicks on its overlay, with the 300 ms timers hide    *)
(* starts.                                                                   *)
(***************************************************************************)
\* the delay of the timer in hide
HIDE_DELAY == 300
ModalStep == 100
ModalHorizon == 600

ModalInit ==
  /\ CoreIdle
  /\ IdleExceptModal
  /\ modal = NoModal

\* new CenterModal({ onClose: ... })
CenterModal(hasOnClose) ==
  /\ modal.phase = "none"
  /\ modal' = [ modal EXCEPT !.phase = "built", !.hasOnClose = hasOnClose ]
  /\ UNCHANGED << coreVars, exceptModal >>

\* the overlay is rendered: the class rule gives display flex unless the inline style says none
Displayed(m) == m.visible /\ m.display # "none"

\* the body of show
Shown(m) ==
  [ m EXCEPT !.visible = TRUE,
             !.lastShow = TRUE,
             !.reopened = m.reopened \/ m.hideTimers # << >> ]

\* the body of hide; a closing is counted when the modal was visible
Hidden(m) ==
  [ m EXCEPT !.visible = FALSE,
             !.lastShow = FALSE,
             !.closings = IF m.visible THEN m.closings + 1 ELSE m.closings,
             !.hideTimers = Append(m.hideTimers, m.clock + HIDE_DELAY) ]

ModalOp(m) == [ m EXCEPT !.ops = m.ops + 1 ]

show ==
  /\ modal.phase = "built"
  /\ modal.ops < MaxModalOps
  /\ modal' = ModalOp(Shown(modal))
  /\ UNCHANGED << coreVars, exceptModal >>

hide ==
  /\ modal.phase = "built"
  /\ modal.ops < MaxModalOps
  /\ modal' = ModalOp(Hidden(modal))
  /\ UNCHANGED << coreVars, exceptModal >>

toggle ==
  /\ modal.phase = "built"
  /\ modal.ops < MaxModalOps
  /\ modal' = ModalOp(IF modal.visible
                      THEN Hidden(modal)
                      ELSE Shown([ modal EXCEPT !.display = "flex" ]))
  /\ UNCHANGED << coreVars, exceptModal >>

\* the click listener of _setupEvents, for a click whose target is the overlay
OverlayClick ==
  /\ modal.phase = "built"
  /\ modal.ops < MaxModalOps
  /\ Displayed(modal)
  /\ modal' = ModalOp(IF modal.hasOnClose
                      THEN Hidden([ modal EXCEPT !.onCloseCalls = modal.onCloseCalls + 1 ])
                      ELSE modal)
  /\ UNCHANGED << coreVars, exceptModal >>

\* the callback of the timer of hide
HideTimerFires ==
  /\ modal.hideTimers # << >>
  /\ Head(modal.hideTimers) = modal.clock
  /\ LET m == [ modal EXCEPT !.hideTimers = Tail(modal.hideTimers) ]
     IN modal' = IF ~m.visible
                 THEN [ m EXCEPT !.display = "none",
                                 !.closedWhileShown = m.closedWhileShown \/ m.lastShow,
                                 !.onCloseCalls = IF m.hasOnClose THEN m.onCloseCalls + 1
                                                                   ELSE m.onCloseCalls ]
                 ELSE m
  /\ UNCHANGED << coreVars, exceptModal >>

ModalTick ==
  /\ modal.clock + ModalStep <= ModalHorizon
  /\ IF modal.hideTimers = << >> THEN TRUE ELSE Head(modal.hideTimers) > modal.clock
  /\ modal' = [ modal EXCEPT !.clock = modal.clock + ModalStep ]
  /\ UNCHANGED << coreVars, exceptModal >>

ModalNext ==
  \/ \E hasOnClose \in BOOLEAN : CenterModal(hasOnClose)
  \/ show
  \/ hide
  \/ toggle
  \/ OverlayClick
  \/ HideTimerFires
  \/ ModalTick

ModalSpec == ModalInit /\ [][ModalNext]_vars

(***************************************************************************)
(* Wired runs: initUrlMonitor(handleUrlChange, false) called one or more   *)
(* times, so that every history operation and popstate event calls         *)
(* handleUrlChange once per installed wrapper or listener, together with    *)
(* the timers and dispatches of the coordinator.                            *)
(***************************************************************************)
\* the URLs of the history operations and popstate events of these runs, and the time that
\* passes between them
WiredUrls == { UrlA1, UrlX }
WiredSteps == { 1000, 2000 }

WiredInit ==
  /\ CoreIdle
  /\ IdleExceptWrap
  /\ wrap = NoWrap

\* a history method behind n wrappers: the innermost call is the native method, and each
\* wrapper calls the method it replaced and then its onUrlChange
RECURSIVE WrapperChain(_, _)
WrapperChain(n, url) ==
  IF n = 0
  THEN [ native |-> 1, changes |-> << >> ]
  ELSE LET original == WrapperChain(n - 1, url)
       IN [ native |-> original.native, changes |-> Append(original.changes, url) ]

\* variant: handleUrlChange leaves the timer it finds scheduled
TimersKept(c) == c.timers

\* the clearTimeout of handleUrlChange, on the coordinator fields c
ClearedTimers(c) ==
  IF c.state.urlChangeTimer # NoTimer
  THEN ClearTimeout(c.timers, c.state.urlChangeTimer)
  ELSE c.timers

\* handleUrlChange(url) at time at, on the coordinator fields c
SignalOnce(c, url, at) ==
  LET cleared == ClearedTimers(c)
  IN [ timers |-> cleared \cup { [ id |-> c.seq + 1, deadline |-> at + URL_PROCESS_DELAY ] },
       seq |-> c.seq + 1,
       state |-> [ c.state EXCEPT !.pendingUrl = url, !.urlChangeTimer = c.seq + 1 ],
       cancelled |-> c.cancelled + Cardinality(c.timers) - Cardinality(cleared) ]

\* the calls of handleUrlChange made one after the other by the callbacks in changes
RECURSIVE SignalAll(_, _, _)
SignalAll(c, changes, at) ==
  IF changes = << >>
  THEN c
  ELSE SignalAll(SignalOnce(c, Head(changes), at), Tail(changes), at)

\* the coordinator after the callbacks in changes, all run at the present time; native: the
\* calls of the native method made by the operation
Deliver(changes, native) ==
  LET c == SignalAll([ timers |-> timers, seq |-> timerSeq, state |-> state,
                       cancelled |-> wrap.cancelled ], changes, now)
  IN /\ timers' = c.timers
     /\ timerSeq' = c.seq
     /\ state' = c.state
     /\ lastSignal' = [ url |-> changes[Len(changes)], time |-> now,
                         early |-> IF ContinuesBurst THEN burstCalls ELSE 0 ]
     /\ burstCalls' = IF ContinuesBurst THEN burstCalls ELSE 0
     /\ sigsSince' = sigsSince + Len(changes)
     /\ wrap' = [ wrap EXCEPT !.navs = wrap.navs + 1, !.cancelled = c.cancelled,
                              !.native = native ]

\* history.pushState or history.replaceState through the installed wrappers
WiredHistoryCall(name, u) ==
  /\ hooks >= 1
  /\ timerSeq + hooks <= MaxSignals
  /\ now <= MaxTime
  /\ IF NativeRejects(u)
     THEN /\ href' = href
          /\ lastOp' = [ name |-> name, arg |-> "none", before |-> href,
                         changes |-> << >>, threw |-> TRUE ]
          /\ wrap' = [ wrap EXCEPT !.native = 1 ]
          /\ UNCHANGED << state, timers, timerSeq, lastSignal, burstCalls, sigsSince >>
     ELSE LET chain == WrapperChain(hooks, OnChangeArg(href, u))
          IN /\ href' = u
             /\ lastOp' = [ name |-> name, arg |-> "none", before |-> href,
                            changes |-> chain.changes, threw |-> FALSE ]
             /\ Deliver(chain.changes, chain.native)
  /\ UNCHANGED << now, pc, siteConfigs, lastCall, findCalls, handlerCalls, lastExit, uncaught,
                  hooks, probeVars, parseVars, bridgeVars, exceptWrap >>

\* the page calls history.pushState or history.replaceState
PageHistoryCall(name, u) ==
  /\ pc = "idle"
  /\ WiredHistoryCall(name, u)

\* the running handler calls history.pushState or history.replaceState
HandlerHistoryCall(name, u) ==
  /\ pc = "handler"
  /\ WiredHistoryCall(name, u)

\* the browser moves to the history entry u and dispatches popstate to the listeners
WiredPopState(u) ==
  /\ pc = "idle"
  /\ hooks >= 1
  /\ timerSeq + hooks <= MaxSignals
  /\ now <= MaxTime
  /\ href' = u
  /\ lastOp' = [ name |-> "popstate", arg |-> "none", before |-> href,
                 changes |-> OnChangeCalls(hooks, u), threw |-> FALSE ]
  /\ Deliver(OnChangeCalls(hooks, u), 0)
  /\ UNCHANGED << now, pc, siteConfigs, lastCall, findCalls, handlerCalls, lastExit, uncaught,
                  hooks, probeVars, parseVars, bridgeVars, exceptWrap >>

WiredNext ==
  \/ initUrlMonitor("false")
  \/ \E name \in { "pushState", "replaceState" }, u \in WiredUrls \cup { UrlForeign } :
       PageHistoryCall(name, u)
  \/ \E name \in { "pushState", "replaceState" }, u \in WiredUrls : HandlerHistoryCall(name, u)
  \/ \E u \in WiredUrls : WiredPopState(u)
  \/ TimerFire
  \/ HandlerReturn
  \/ HandlerThrow
  \/ \E d \in WiredSteps : Tick(d)

WiredSpec == WiredInit /\ [][WiredNext]_vars

(***************************************************************************)
(* Shipped-registry runs: the registry the extension ships, looked up by   *)
(* the refactored matcher and by the original matcher of siteManager.js.   *)
(***************************************************************************)
AndfleetHost == << "a", "n", "d", "f", "l", "e", "e", "t", ".", "c", "m", "-", "i", "o", "v", ".", "c", "o", "m" >>
OrderRoute == << "/", "v", "1", "/", "e", "v", "h", "e", "/", "#", "/", "o", "r", "d", "e", "r", "/" >>
OrderFragment == << "#", "/", "o", "r", "d", "e", "r", "/" >>

\* var siteConfigs of the refactored site manager
ShippedConfigs ==
  << [ url |-> AndfleetHost,
       routes |-> << [ path |-> OrderRoute, matchType |-> "pathPrefix",
                       handler |-> "handleAndfleet" ] >> ] >>

\* var siteConfigs of siteManager.js: the same rule without a matchType
OriginalConfigs ==
  << [ url |-> AndfleetHost,
       routes |-> << [ path |-> OrderRoute, matchType |-> Undefined,
                       handler |-> "handleAndfleet" ] >> ] >>

\* route.path.replace("*", ""): the first "*" removed
WithoutStar(path) ==
  LET i == IndexOf(path, "*")
  IN IF i = 0 THEN path ELSE SubSeq(path, 1, i - 1) \o SubSeq(path, i + 1, Len(path))

\* the predicate of the callback given to site.routes.find in siteManager.js
originalRouteMatches(route, fullPath, pathname, hash) ==
  LET path == route.path
      routeHasHash == Includes(path, << "#" >>)
      hasStar == Includes(path, << "*" >>)
  IN IF path = << "/" >> THEN TRUE
     ELSE IF fullPath = path THEN TRUE
     ELSE IF pathname = path THEN TRUE
     ELSE IF EndsWith(path, << "/" >>) /\ ~hasStar
          THEN IF routeHasHash THEN StartsWith(fullPath, path) ELSE StartsWith(pathname, path)
     ELSE IF ~hasStar
          THEN IF routeHasHash
               THEN LET routePathParts == Split(path, "#")
                        routePathname == routePathParts[1]
                        routeHash == routePathParts[2]
                    IN IF ~StartsWith(pathname, routePathname) THEN FALSE
                       ELSE IF hash # << >> /\ routeHash # << >>
                               /\ ~StartsWith(hash, << "#" >> \o routeHash) THEN FALSE
                       ELSE TRUE
               ELSE LET routeParts == FilterBoolean(Split(path, "/"))
                        pathParts == FilterBoolean(Split(pathname, "/"))
                    IN /\ Len(routeParts) <= Len(pathParts)
                       /\ \A i \in 1..Len(routeParts) : routeParts[i] = pathParts[i]
     ELSE StartsWith(fullPath, WithoutStar(path))

\* findHandlerForUrl of siteManager.js
originalFindHandlerForUrl(configs, url) ==
  IF UrlThrows(url) THEN Null
  ELSE LET hostname == UrlHostname(url)
           pathname == UrlPathname(url)
           hash == UrlHash(url)
           fullPath == pathname \o hash
           s == findSite(configs, hostname)
       IN IF s = 0 THEN Null
          ELSE LET hits == { i \in 1..Len(configs[s].routes) :
                               originalRouteMatches(configs[s].routes[i], fullPath, pathname, hash) }
               IN IF hits = {} THEN Null
                  ELSE configs[s].routes[CHOOSE i \in hits : \A j \in hits : i <= j].handler

\* the URLs looked up: two hosts, paths, query strings and fragments around the order pages
ShippedHosts == { AndfleetHost, HostBC }
ShippedPaths == { << "/", "v", "1", "/", "e", "v", "h", "e", "/" >>, << "/", "v", "1", "/", "e", "v", "h", "e" >>, << "/", "v", "1", "/" >> }
ShippedSearches == { << >>, << "?", "q" >> }
ShippedFragments ==
  { << >>, << "#", "/", "h", "o", "m", "e" >>, OrderFragment }
  \cup { OrderFragment \o t : t \in { << "1", "2", "3" >>, << "1", "2", "3", "?", "t", "a", "b", "=", "1" >>, << "?", "t", "a", "b", "=", "1" >>, << "1", "/", "d", "e", "t", "a", "i", "l" >>, << "l", "i", "s", "t" >>, << "9", "?", "a", "#", "b" >> } }
ShippedUrls ==
  { Scheme \o h \o p \o q \o f :
      h \in ShippedHosts, p \in ShippedPaths, q \in ShippedSearches, f \in ShippedFragments }

ShippedInit ==
  /\ CoreIdle
  /\ IdleExceptShipped
  /\ shipped = NoShipped

\* both matchers are asked for the handler of url
LookupBoth(url) ==
  /\ shipped' = [ url |-> url,
                  refactored |-> findHandlerForUrl(ShippedConfigs, url),
                  legacy |-> originalFindHandlerForUrl(OriginalConfigs, url) ]
  /\ UNCHANGED << coreVars, exceptShipped >>

ShippedNext == \E url \in ShippedUrls : LookupBoth(url)

ShippedSpec == ShippedInit /\ [][ShippedNext]_vars

(***************************************************************************)
(* Site-manager runs: siteManager.js is evaluated, polls its dependencies  *)
(* every 100 ms and gives up after 10 s, while the content script          *)
(* debounces the navigations of the page and dispatches them.  The        *)
(* scripts are injected together, so the clock starts when siteManager.js  *)
(* is evaluated; it moves in multiples of the polling interval, so a poll  *)
(* runs at every instant of the model.                                     *)
(***************************************************************************)
\* the delay of the timeout of siteManager.js
MANAGER_TIMEOUT == 10000
\* the clock moves by ten polling intervals, until the timeout and a last dispatch are over
ManagerStep == 10 * DEP_POLL_INTERVAL
ManagerHorizon == MANAGER_TIMEOUT + URL_PROCESS_DELAY + ManagerStep

ManagerInit ==
  /\ CoreIdle
  /\ IdleExceptManager
  /\ \E loaded \in BOOLEAN : manager = [ NoManager EXCEPT !.depsLoaded = loaded ]

\* initSiteManager(): window.SiteManager is exported
initSiteManager(m) == [ m EXCEPT !.initRuns = m.initRuns + 1, !.exported = TRUE ]

\* if (checkInterval) in the timeout callback: the interval id is never reset, so it is truthy
\* whether or not the interval was cleared
CheckIntervalSet(m) == TRUE

\* siteManager.js is evaluated
EvaluateSiteManager ==
  /\ manager.phase = "unloaded"
  /\ manager' = IF manager.depsLoaded
                THEN [ initSiteManager(manager) EXCEPT !.phase = "started" ]
                ELSE [ manager EXCEPT !.phase = "started", !.intervalLive = TRUE,
                                      !.timeoutDue = manager.clock + MANAGER_TIMEOUT ]
  /\ UNCHANGED << coreVars, exceptManager >>

\* the scripts of the dependencies have all been evaluated
DependenciesLoad ==
  /\ ~manager.depsLoaded
  /\ manager' = [ manager EXCEPT !.depsLoaded = TRUE ]
  /\ UNCHANGED << coreVars, exceptManager >>

\* the setInterval callback finds every dependency loaded
IntervalPoll ==
  /\ manager.intervalLive
  /\ manager.depsLoaded
  /\ manager' = initSiteManager([ manager EXCEPT !.intervalLive = FALSE ])
  /\ UNCHANGED << coreVars, exceptManager >>

\* the callback of the 10 s timeout; the interval was set before it, so a poll due at the
\* same instant runs first
ManagerTimeout ==
  /\ manager.timeoutDue = manager.clock
  /\ ~(manager.intervalLive /\ manager.depsLoaded)
  /\ LET m == [ manager EXCEPT !.timeoutDue = NoDue ]
     IN manager' = IF CheckIntervalSet(m)
                   THEN initSiteManager([ m EXCEPT !.intervalLive = FALSE,
                                                   !.timeoutErrors = m.timeoutErrors + 1,
                                                   !.loadedAtTimeout = m.depsLoaded ])
                   ELSE m
  /\ UNCHANGED << coreVars, exceptManager >>

\* handleUrlChange(url) for a navigation of the page
Navigate(url) ==
  /\ manager.phase = "started"
  /\ manager.signals < MaxSignals
  /\ manager.clock + URL_PROCESS_DELAY <= ManagerHorizon
  /\ manager' = [ manager EXCEPT !.signals = manager.signals + 1,
                                 !.pendingUrl = url,
                                 !.timerDue = manager.clock + URL_PROCESS_DELAY ]
  /\ UNCHANGED << coreVars, exceptManager >>

\* the debounce timer fires: processUrlChange(state.pendingUrl)
DebounceFires ==
  /\ manager.timerDue = manager.clock
  /\ LET url == manager.pendingUrl
         m == [ manager EXCEPT !.timerDue = NoDue ]
         repeat == /\ url = m.lastProcessedUrl
                   /\ m.clock - m.lastProcessTime < URL_REPEAT_THRESHOLD
         seen == [ m EXCEPT !.lastProcessedUrl = url, !.lastProcessTime = m.clock ]
     IN manager' = IF repeat THEN m
                   ELSE IF seen.exported /\ findHandlerForUrl(NavConfigs, url) # Null
                   THEN [ seen EXCEPT !.invoked = seen.invoked \cup { url } ]
                   ELSE seen
  /\ UNCHANGED << coreVars, exceptManager >>

ManagerTick ==
  /\ manager.phase = "started"
  /\ manager.clock + ManagerStep <= ManagerHorizon
  /\ manager.timerDue # manager.clock
  /\ manager.timeoutDue # manager.clock
  /\ ~(manager.intervalLive /\ manager.depsLoaded)
  /\ manager' = [ manager EXCEPT !.clock = manager.clock + ManagerStep ]
  /\ UNCHANGED << coreVars, exceptManager >>

ManagerNext ==
  \/ EvaluateSiteManager
  \/ DependenciesLoad
  \/ IntervalPoll
  \/ ManagerTimeout
  \/ \E url \in { UrlA1, UrlX } : Navigate(url)
  \/ DebounceFires
  \/ ManagerTick

ManagerSpec == ManagerInit /\ [][ManagerNext]_vars

(***************************************************************************)
(* Tab runs: a tab loads a page; the background script notifies the tab    *)
(* when the load is complete; the content script registers its message      *)
(* listener and starts the URL monitor when it is injected; later the page  *)
(* navigates with history.pushState.                                         *)
(***************************************************************************)
TabStep == URL_PROCESS_DELAY \div 2
TabHorizon == 3 * URL_PROCESS_DELAY

TabInit ==
  /\ CoreIdle
  /\ IdleExceptTab
  /\ \E u \in { UrlA1, UrlX } : tab = [ NoTab EXCEPT !.pageUrl = u ]

\* handleUrlChange(url) in the content script of the tab
TabSignal(t, url) ==
  [ t EXCEPT !.signals = t.signals + 1, !.pendingUrl = url,
             !.timerDue = t.clock + URL_PROCESS_DELAY ]

\* chrome.tabs.sendMessage reaches a listener
HasReceiver(t) == t.listening

\* tabs.onUpdated with status 'complete': notifyTabUrlChanged(tabId, tab.url); without a
\* listener in the tab sendMessage fails with runtime.lastError, which the callback ignores
TabComplete ==
  /\ ~tab.complete
  /\ tab' = IF HasReceiver(tab)
            THEN TabSignal([ tab EXCEPT !.complete = TRUE ], tab.pageUrl)
            ELSE [ tab EXCEPT !.complete = TRUE, !.lost = tab.lost + 1 ]
  /\ UNCHANGED << coreVars, exceptTab >>

\* initContentScript(): onMessage.addListener and initUrlMonitor(handleUrlChange, false)
initContentScript ==
  /\ ~tab.listening
  /\ tab' = [ tab EXCEPT !.listening = TRUE ]
  /\ UNCHANGED << coreVars, exceptTab >>

\* the page calls history.pushState(url) through the wrapper of the URL monitor
TabPushState(url) ==
  /\ tab.listening
  /\ tab.signals < MaxSignals
  /\ tab.clock + URL_PROCESS_DELAY <= TabHorizon
  /\ tab' = TabSignal([ tab EXCEPT !.pageUrl = url ], url)
  /\ UNCHANGED << coreVars, exceptTab >>

\* the debounce timer fires: processUrlChange(state.pendingUrl)
TabDebounceFires ==
  /\ tab.timerDue = tab.clock
  /\ LET url == tab.pendingUrl
         t == [ tab EXCEPT !.timerDue = NoDue ]
         repeat == /\ url = t.lastProcessedUrl
                   /\ t.clock - t.lastProcessTime < URL_REPEAT_THRESHOLD
         seen == [ t EXCEPT !.lastProcessedUrl = url, !.lastProcessTime = t.clock ]
     IN tab' = IF repeat THEN t
               ELSE IF findHandlerForUrl(NavConfigs, url) # Null
               THEN [ seen EXCEPT !.invoked = seen.invoked \cup { url } ]
               ELSE seen
  /\ UNCHANGED << coreVars, exceptTab >>

TabTick ==
  /\ tab.clock + TabStep <= TabHorizon
  /\ tab.timerDue # tab.clock
  /\ tab' = [ tab EXCEPT !.clock = tab.clock + TabStep ]
  /\ UNCHANGED << coreVars, exceptTab >>

TabNext ==
  \/ TabComplete
  \/ initContentScript
  \/ \E url \in { UrlA1, UrlA2, UrlX } : TabPushState(url)
  \/ TabDebounceFires
  \/ TabTick

TabSpec == TabInit /\ [][TabNext]_vars

(***************************************************************************)
(* StorageManager.getStorage for one site and one property k of its        *)
(* storage object: the calls of getStorage, the completion of the          *)
(* asynchronous load, and the assignments and deletions made by the        *)
(* callers that hold the object.                                           *)
(***************************************************************************)
\* the value persisted by an earlier page, and the values the callers assign
PersistedValue == "v0"
AssignedValues == { "v1", "v2" }

\* most promises of getStorage resolved, most writes on their way to the store
MaxHolders == 3
MaxSaves == 2

\* some caller has received the storage object
Held(st) == st.holders > 0

StorageInit ==
  /\ CoreIdle /\ IdleExceptStorage
  /\ \E v \in { Undefined, PersistedValue } : storage = [ NoStorage EXCEPT !.persisted = v ]

\* Object.assign(memoryCache, data) for the property k
ObjectAssign(cache, data) == IF data = Undefined THEN cache ELSE data

\* getStorage(siteName), no entry in storageMap: the proxy is created and stored, loadData
\* issues the read of the persisted data
getStorageFirst ==
  /\ ~storage.inMap
  /\ storage' = [ storage EXCEPT !.inMap = TRUE, !.created = storage.created + 1,
                                 !.load = "reading", !.data = storage.persisted ]
  /\ UNCHANGED << coreVars, exceptStorage >>

\* getStorage(siteName), entry in storageMap: Promise.resolve(storageMap.get(siteName))
getStorageAgain ==
  /\ storage.inMap
  /\ storage.holders < MaxHolders
  /\ storage' = [ storage EXCEPT !.holders = storage.holders + 1,
                    !.earlyResolved = storage.earlyResolved \/ storage.load # "loaded",
                    !.blankResolved = \/ storage.blankResolved
                                      \/ /\ storage.load # "loaded"
                                         /\ storage.data # Undefined
                                         /\ storage.memoryCache = Undefined ]
  /\ UNCHANGED << coreVars, exceptStorage >>

\* loadData(siteName).then: the data that was read is copied into memoryCache and the
\* promise of the first call resolves to the proxy
LoadCompletes ==
  /\ storage.load = "reading"
  /\ storage' = [ storage EXCEPT !.load = "loaded",
                    !.holders = IF storage.holders < MaxHolders THEN storage.holders + 1
                                                                ELSE storage.holders,
                    !.memoryCache = ObjectAssign(storage.memoryCache, storage.data) ]
  /\ UNCHANGED << coreVars, exceptStorage >>

\* storage.k = v by a caller that holds the object: handler.set and saveData
StorageSet(v) ==
  /\ Held(storage)
  /\ Len(storage.saves) < MaxSaves
  /\ storage' = [ storage EXCEPT !.memoryCache = v, !.lastWrite = v,
                                 !.saves = Append(storage.saves, v) ]
  /\ UNCHANGED << coreVars, exceptStorage >>

\* delete storage.k by a caller that holds the object: handler.deleteProperty
StorageDelete ==
  /\ Held(storage)
  /\ storage.memoryCache # Undefined
  /\ Len(storage.saves) < MaxSaves
  /\ storage' = [ storage EXCEPT !.memoryCache = Undefined, !.lastWrite = Undefined,
                                 !.saves = Append(storage.saves, Undefined) ]
  /\ UNCHANGED << coreVars, exceptStorage >>

\* the oldest write under way reaches the store: saveData or deleteData completes
SaveCompletes ==
  /\ storage.saves # << >>
  /\ storage' = [ storage EXCEPT !.persisted = Head(storage.saves),
                                 !.saves = Tail(storage.saves) ]
  /\ UNCHANGED << coreVars, exceptStorage >>

StorageNext ==
  \/ getStorageFirst
  \/ getStorageAgain
  \/ LoadCompletes
  \/ \E v \in AssignedValues : StorageSet(v)
  \/ StorageDelete
  \/ SaveCompletes

StorageSpec == StorageInit /\ [][StorageNext]_vars

(***************************************************************************)
(* Properties of the dispatch coordinator (specification Spec)             *)
(***************************************************************************)
\* a step in which a timer callback ran
TimerFired == timerSeq' = timerSeq /\ timers' # timers

\* a step in which handleUrlChange ran
SignalArrived == timerSeq' = timerSeq + 1

\* C1: in a burst of raw signals, each less than URL_PROCESS_DELAY after the previous one,
\* processUrlChange is called at most once, and not before the last signal of the burst
\* (so that only the last URL of the burst is dispatched).
C1_Coalescing ==
  /\ burstCalls <= 1
  /\ lastSignal.early = 0

\* C2: after u was dispatched to its handler, u signalled again 500 ms after that
\* dispatch, with no other signal, never leads to a second handler invocation.
C2_RepeatSuppressed ==
  ~ ( /\ lastCall.outcome = "invoked"
      /\ lastCall.url = lastCall.seenUrl
      /\ lastCall.sigs = 1
      /\ lastCall.sigTime = lastCall.seenTime + 500 )

\* C3: when u was dispatched, is signalled again 2500 ms or more after that dispatch and
\* resolves to a handler, a timer is scheduled for URL_PROCESS_DELAY after that signal as
\* long as the signal is not dispatched, and the call of processUrlChange made for the
\* signal invokes the handler again instead of dropping the URL.
C3_RepeatAfterThreshold ==
  /\ ( /\ sigsSince >= 1
       /\ pc = "idle"
       /\ state.pendingUrl = state.lastProcessedUrl
       /\ lastSignal.time >= state.lastProcessTime + 2500 )
     => \E t \in timers : t.deadline = lastSignal.time + URL_PROCESS_DELAY
  /\ ( /\ lastCall.outcome # "no-call"
       /\ lastCall.url = lastCall.seenUrl
       /\ lastCall.sigTime >= lastCall.seenTime + 2500
       /\ findHandlerForUrl(siteConfigs, lastCall.url) # Null )
     => lastCall.outcome = "invoked" /\ handlerCalls >= 2

C3_Witness ==
  /\ lastCall.outcome = "invoked"
  /\ lastCall.url = lastCall.seenUrl
  /\ lastCall.sigs = 1
  /\ lastCall.sigTime = lastCall.seenTime + 2500
  /\ handlerCalls = 2

\* C4: at most one debounce timer is scheduled and neither fired nor cancelled.
C4_OneTimer == Cardinality(timers) <= 1

\* C5: a handler that throws ends the dispatch exactly as a handler that returns: the
\* exception does not escape the timer callback, the timer handle is cleared, and the
\* rest of the dispatch state and the scheduled timers are untouched.
C5_HandlerErrorContained ==
  [][ (pc = "handler" /\ pc' = "idle" /\ lastExit' = "throw")
      => /\ uncaught' = 0
         /\ state' = [ state EXCEPT !.urlChangeTimer = NoTimer ]
         /\ timers' = timers ]_vars

\* a handler runs for a later signal after an earlier invocation threw
C5_Witness == lastExit = "throw" /\ pc = "handler" /\ handlerCalls >= 2 /\ uncaught = 0

\* C6: state.pendingUrl is null before the first signal and the URL of the most recent raw
\* signal afterwards, and every call of processUrlChange gets that most recent URL.
C6_PendingIsLatest ==
  /\ state.pendingUrl = lastSignal.url
  /\ lastCall.url = lastCall.latest

\* a dispatch made after a signal superseded an earlier pending one
C6_Witness ==
  /\ lastCall.outcome # "no-call"
  /\ lastCall.sigs >= 2
  /\ lastCall.url = state.pendingUrl
  /\ lastCall.url # lastCall.seenUrl

Probed == probeResult # NotProbed /\ ~UrlThrows(probeUrl)
ProbeHostname == UrlHostname(probeUrl)
ProbeFullPath == UrlPathname(probeUrl) \o UrlHash(probeUrl)

\* hostname is the site url, a subdomain of it, or contains it somewhere
Related(hostname, siteUrl) ==
  \/ hostname = siteUrl
  \/ \E k \in 1..Len(hostname) :
       hostname[k] = "." /\ SubSeq(hostname, k + 1, Len(hostname)) = siteUrl
  \/ \E i \in 1..(Len(hostname) + 1) : \E j \in (i - 1)..Len(hostname) :
       SubSeq(hostname, i, j) = siteUrl

AnyRouteMatches(site) == \E k \in 1..Len(site.routes) : routeMatches(site.routes[k], ProbeFullPath)

\* C8: a URL whose hostname is related to the url of no site entry gets null.
C8_NoSiteNoHandler ==
  ( /\ Probed
    /\ \A i \in 1..Len(siteConfigs) : ~Related(ProbeHostname, siteConfigs[i].url) )
  => probeResult = Null

\* an unrelated host is refused although the registry has a match-all rule
C8_Witness ==
  /\ Probed
  /\ probeResult = Null
  /\ \A i \in 1..Len(siteConfigs) :
       ~Related(ProbeHostname, siteConfigs[i].url) /\ siteConfigs[i].routes = << RouteAll >>

\* C9: the site entry used is the first one, in registry order, whose url is related to
\* the hostname (equality, subdomain or substring); the result is a handler of a matching
\* rule of that entry, and null when that entry has no matching rule, whatever later
\* entries contain.
C9_FirstSiteWins ==
  Probed =>
    \A i \in 1..Len(siteConfigs) :
      ( /\ Related(ProbeHostname, siteConfigs[i].url)
        /\ \A j \in 1..(i - 1) : ~Related(ProbeHostname, siteConfigs[j].url) )
      => /\ AnyRouteMatches(siteConfigs[i])
            => \E k \in 1..Len(siteConfigs[i].routes) :
                 /\ routeMatches(siteConfigs[i].routes[k], ProbeFullPath)
                 /\ probeResult = siteConfigs[i].routes[k].handler
         /\ ~AnyRouteMatches(siteConfigs[i]) => probeResult = Null

\* host xb.cy selects the entry b.c by substring only; that entry has no matching rule,
\* the second entry is related too and has one; the result is null
C9_Witness ==
  /\ Probed
  /\ ProbeHostname = << "x", "b", ".", "c", "y" >>
  /\ Len(siteConfigs) = 2
  /\ siteConfigs[1].url = HostBC
  /\ siteConfigs[1].routes # << >>
  /\ ~AnyRouteMatches(siteConfigs[1])
  /\ Related(ProbeHostname, siteConfigs[2].url)
  /\ AnyRouteMatches(siteConfigs[2])
  /\ probeResult = Null

\* the site entry findHandlerForUrl selected for probeUrl
ProbeSite == siteConfigs[findSite(siteConfigs, ProbeHostname)]

\* C10: within the selected entry the result is the handler of the first rule, in list
\* order, whose predicate holds, and null when no rule matches; with the rules
\* ["/a" pathPrefix, "/" match-all] the path /a/b gets the handler of the first rule.
C10_FirstRouteWins ==
  (Probed /\ findSite(siteConfigs, ProbeHostname) # 0) =>
    /\ \A k \in 1..Len(ProbeSite.routes) :
         ( /\ routeMatches(ProbeSite.routes[k], ProbeFullPath)
           /\ \A j \in 1..(k - 1) : ~routeMatches(ProbeSite.routes[j], ProbeFullPath) )
         => probeResult = ProbeSite.routes[k].handler
    /\ ~AnyRouteMatches(ProbeSite) => probeResult = Null
    /\ ( /\ ProbeSite.routes = << RoutePrefixA, RouteAll >>
         /\ UrlPathname(probeUrl) = << "/", "a", "/", "b" >> )
       => probeResult = "h1"

C10_Witness ==
  /\ Probed
  /\ findSite(siteConfigs, ProbeHostname) # 0
  /\ ProbeSite.routes = << RoutePrefixA, RouteAll >>
  /\ UrlPathname(probeUrl) = << "/", "a", "/", "b" >>
  /\ probeResult = "h1"

(***************************************************************************)
(* Properties of the match types (specification RuleSpec)                  *)
(***************************************************************************)
\* findHandlerForUrl has answered for a well-formed URL and a site with a single rule
OneRuleProbed ==
  /\ probeResult # NotProbed
  /\ ~UrlThrows(probeUrl)
  /\ Len(siteConfigs[1].routes) = 1

TheRule == siteConfigs[1].routes[1]

RuleMatched == probeResult = TheRule.handler

\* the non-empty pieces between the "/" of a path
Segments(p) == FilterBoolean(Split(p, "/"))

SegmentPrefix(ps, us) ==
  /\ Len(us) >= Len(ps)
  /\ \A i \in 1..Len(ps) : ps[i] = us[i]

\* C11: a pathPrefix rule matches a URL exactly when the segments of its pattern are, in
\* order, the first segments of the URL's pathname; the query string and the fragment of
\* the URL have no influence.
C11_PathPrefixOnPathname ==
  ( /\ OneRuleProbed
    /\ TheRule.matchType = "pathPrefix"
    /\ TheRule.path # << "/" >> )
  => ( RuleMatched <=> SegmentPrefix(Segments(TheRule.path), Segments(UrlPathname(probeUrl))) )

\* C12: an exact rule matches a URL exactly when its pattern is the URL's path, followed
\* by "?" and the query string when there is one, followed by the fragment; a URL that
\* differs from the pattern only in its query string or its fragment does not match.
C12_ExactOnWholePath ==
  ( /\ OneRuleProbed
    /\ TheRule.matchType = "exact"
    /\ TheRule.path # << "/" >> )
  => ( RuleMatched
       <=> TheRule.path = UrlPathname(probeUrl) \o UrlSearch(probeUrl) \o UrlHash(probeUrl) )

\* one trailing "/" removed
DropTrailingSlash(p) == IF EndsWith(p, << "/" >>) THEN SubSeq(p, 1, Len(p) - 1) ELSE p

\* C13: a pathExact rule matches a URL exactly when its pattern and the URL's pathname are
\* equal after one trailing "/" is removed from each, whatever the query string and the
\* fragment of the URL are, fragments that contain "?" included.
C13_PathExactOnPathname ==
  ( /\ OneRuleProbed
    /\ TheRule.matchType = "pathExact"
    /\ TheRule.path # << "/" >> )
  => ( RuleMatched
       <=> DropTrailingSlash(TheRule.path) = DropTrailingSlash(UrlPathname(probeUrl)) )

\* what the predicate named by the rule's matchType says, pathPrefix when there is none
TypePredicate(route, fullPath) ==
  IF route.matchType = "exact" THEN matchExact(route.path, fullPath)
  ELSE IF route.matchType = "pathExact" THEN matchPathExact(route.path, parseUrlParts(fullPath))
  ELSE IF route.matchType = "regex" THEN matchRegex(route.path, fullPath)
  ELSE matchPathPrefix(route.path, parseUrlParts(fullPath))

\* C14: a rule with path "/" and no matchType matches every URL; a rule with path "/" and
\* a matchType is evaluated by the predicate of that match type; a rule with another path
\* and no matchType is evaluated as pathPrefix.
C14_RootRuleByMatchType ==
  OneRuleProbed
  => /\ (TheRule.path = << "/" >> /\ TheRule.matchType = Undefined) => RuleMatched
     /\ (TheRule.path = << "/" >> /\ TheRule.matchType # Undefined)
        => (RuleMatched <=> TypePredicate(TheRule, ProbeFullPath))
     /\ (TheRule.path # << "/" >> /\ TheRule.matchType = Undefined)
        => (RuleMatched <=> matchPathPrefix(TheRule.path, parseUrlParts(ProbeFullPath)))

\* the rule is a regex rule whose pattern new RegExp rejects
BadRegexRule(route) ==
  /\ route.path # << "/" >>
  /\ route.matchType = "regex"
  /\ RegExpThrows(StripEnds(route.path))

\* C15: findHandlerForUrl never ends with an exception: for every string, strings that
\* are no URL and registries with a regex rule that does not compile included, it returns
\* the handler of a rule of the registry or null.
C15_LookupNeverRaises ==
  probeResult # NotProbed
  => /\ probeResult # Thrown
     /\ \/ probeResult = Null
        \/ \E i \in 1..Len(siteConfigs) : \E k \in 1..Len(siteConfigs[i].routes) :
             probeResult = siteConfigs[i].routes[k].handler

\* a string new URL rejects was looked up in a registry with a regex rule that does not compile
C15_Witness ==
  /\ probeResult = Null
  /\ UrlThrows(probeUrl)
  /\ \E k \in 1..Len(siteConfigs[1].routes) : BadRegexRule(siteConfigs[1].routes[k])

\* C16: a regex rule whose pattern does not compile counts as not matching, and the rules
\* after it are still evaluated: the first rule that matches, the ones that do not compile
\* skipped, gives the handler.
C16_BadRegexSkipped ==
  (probeResult # NotProbed /\ ~UrlThrows(probeUrl))
  => \A k \in 1..Len(siteConfigs[1].routes) :
       ( /\ ~BadRegexRule(siteConfigs[1].routes[k])
         /\ routeMatches(siteConfigs[1].routes[k], ProbeFullPath)
         /\ \A j \in 1..(k - 1) :
              \/ BadRegexRule(siteConfigs[1].routes[j])
              \/ ~routeMatches(siteConfigs[1].routes[j], ProbeFullPath) )
       => probeResult = siteConfigs[1].routes[k].handler

\* the first rule does not compile and the second one gave the handler
C16_Witness ==
  /\ ~UrlThrows(probeUrl)
  /\ Len(siteConfigs[1].routes) >= 2
  /\ BadRegexRule(siteConfigs[1].routes[1])
  /\ probeResult = siteConfigs[1].routes[2].handler

(***************************************************************************)
(* Properties of the parser (specification ParseSpec)                      *)
(***************************************************************************)
Parsed == parseOut # << >>

\* the part of s before position i, and the part from position i on
Before(s, i) == SubSeq(s, 1, i - 1)
From(s, i) == SubSeq(s, i, Len(s))

\* C17: for a string with no "?" and at least one "#", parseUrlParts gives as path the
\* text before the first "#", an empty query, and as hash the first "#" with everything
\* after it; for the URL https://x/a#/b that is path "/a", query "", hash "#/b".
C17_FallbackParse ==
  /\ (Parsed /\ ~Includes(parseIn, << "?" >>) /\ Includes(parseIn, << "#" >>))
     => /\ parseOut[1].path = Before(parseIn, FirstOf(parseIn, {"#"}))
        /\ parseOut[1].query = << >>
        /\ parseOut[1].hash = From(parseIn, FirstOf(parseIn, {"#"}))
  /\ (Parsed /\ parseIn = ExampleFullPath)
     => /\ parseOut[1].path = << "/", "a" >>
        /\ parseOut[1].query = << >>
        /\ parseOut[1].hash = << "#", "/", "b" >>

\* a string with two "#" and no "?" was parsed
C17_Witness ==
  /\ Parsed
  /\ ~Includes(parseIn, << "?" >>)
  /\ Len(Split(parseIn, "#")) >= 3
  /\ parseOut[1].hash = From(parseIn, FirstOf(parseIn, {"#"}))
  /\ parseOut[1].path # << >>

\* C18: for a string with a "?", parseUrlParts gives as path the text before the first
\* "?", as query the text between that "?" and the first "#" after it, and as hash that
\* "#" with everything after it (empty when there is none); when the query is not empty,
\* fullPath is the string that was parsed, also when it has a second "?" or a second "#".
C18_QueryParse ==
  (Parsed /\ Includes(parseIn, << "?" >>))
  => LET rest == From(parseIn, FirstOf(parseIn, {"?"}) + 1)
     IN  /\ parseOut[1].path = Before(parseIn, FirstOf(parseIn, {"?"}))
         /\ parseOut[1].query = Before(rest, FirstOf(rest, {"#"}))
         /\ parseOut[1].hash = From(rest, FirstOf(rest, {"#"}))
         /\ parseOut[1].query # << >> => parseOut[1].fullPath = parseIn

(***************************************************************************)
(* Properties of the URL monitor (specification MonitorSpec)               *)
(***************************************************************************)
\* C19: after one call of initUrlMonitor(onUrlChange, false), a call of history.pushState
\* or history.replaceState performs the original mutation and then calls onUrlChange
\* exactly once with the URL the page has after it, and a popstate event calls
\* onUrlChange exactly once with the current URL; nothing is delayed or filtered, a
\* mutation that leaves the URL as it was calls onUrlChange too.
C19_OneCallPerMutation ==
  hooks = 1
  => /\ (lastOp.name \in {"pushState", "replaceState"} /\ ~lastOp.threw)
        => lastOp.changes = << href >>
     /\ lastOp.name = "popstate" => lastOp.changes = << href >>

\* pushState changed the URL and onUrlChange got the new one
C19_Witness ==
  /\ hooks = 1
  /\ lastOp.name = "pushState"
  /\ lastOp.before # href
  /\ lastOp.changes = << href >>

\* C20: a call of initUrlMonitor calls onUrlChange exactly once, with the current URL and
\* before it returns, when checkImmediately is true, and not at all when checkImmediately
\* is false or omitted.
C20_ImmediateCheck ==
  lastOp.name = "init"
  => lastOp.changes = IF lastOp.arg = "true" THEN << href >> ELSE << >>

\* initUrlMonitor was called with checkImmediately true and called onUrlChange once
C20_Witness ==
  /\ lastOp.name = "init"
  /\ lastOp.arg = "true"
  /\ lastOp.changes = << href >>

(***************************************************************************)
(* Properties of the message listener (specification BridgeSpec)           *)
(***************************************************************************)
\* C21: a message with action "urlChanged" puts request.url into the debounced pipeline
\* (pending URL, timer for URL_PROCESS_DELAY later) and gets exactly one reply, "received"
\* as scheduling does not throw; a message with another action schedules nothing, leaves
\* the dispatch state as it is and gets no reply.
C21_BridgeProtocol ==
  [][ lastMsg'.n # lastMsg.n
      => IF lastMsg'.action = "urlChanged"
         THEN /\ state'.pendingUrl = lastMsg'.url
              /\ \E t \in timers' : /\ t.id = state'.urlChangeTimer
                                    /\ t.deadline = now + URL_PROCESS_DELAY
              /\ lastMsg'.replies = << "received" >>
         ELSE /\ lastMsg'.replies = << >>
              /\ state' = state
              /\ timers' = timers
              /\ timerSeq' = timerSeq ]_vars

\* a message with another action arrived while the timer of a urlChanged message was pending
C21_Witness ==
  /\ lastMsg.action = "ping"
  /\ lastMsg.replies = << >>
  /\ timers # {}
  /\ state.pendingUrl # NullUrl

(***************************************************************************)
(* Properties of the start-up (specification DepSpec)                      *)
(***************************************************************************)
\* C22: when a dependency is absent at start-up and stays absent, its absence is logged
\* once, not once per poll, and window.SiteManager is exported all the same.
C22_DegradedStart ==
  ( /\ deps.phase # "unloaded"
    /\ deps.atStart # {}
    /\ deps.missing = deps.atStart )
  => /\ deps.waitLogs = 1
     /\ deps.exported

(***************************************************************************)
(* Properties of waitForDOMStable (specification StableSpec)               *)
(***************************************************************************)
StableSettled == stable.phase \in {"resolved", "rejected"}

ElemSettled == waiter.phase \in {"resolved", "rejected"}

\* the state part of C24
ElemSettlesOnce ==
  /\ waiter.settles <= 1
  /\ ElemSettled <=> waiter.settles = 1
  /\ waiter.phase = "waiting" => waiter.clock <= waiter.timeout
  /\ ElemSettled => waiter.settledAt <= waiter.timeout
  /\ waiter.atCall <=> (ElemSettled /\ waiter.reason = "exists")
  /\ waiter.reason = "exists" => waiter.settledAt = 0 /\ waiter.phase = "resolved"
  /\ waiter.phase = "rejected" => waiter.reason \in {"url", "timeout"}
  /\ waiter.reason = "url" => waiter.checkUrlChange /\ ~waiter.urlSame
  /\ waiter.reason = "timeout" => waiter.settledAt = waiter.timeout
  /\ ElemSettled => ~waiter.observing /\ waiter.timeoutDue = NoDue

\* C24: waitForElement settles exactly once and no later than timeout ms after the call:
\* at once when the element exists already; with the element at the first observed
\* mutation after which it exists; with a rejection at an observed mutation when
\* checkUrlChange is set and the URL has changed; with the timeout error otherwise; after
\* it has settled the observer is disconnected and the timeout timer is cleared.
C24_ElementWait ==
  /\ []ElemSettlesOnce
  /\ [][ (waiter.phase = "waiting" /\ waiter'.callbacks # waiter.callbacks)
         => IF waiter.checkUrlChange /\ ~waiter.urlSame
            THEN waiter'.phase = "rejected" /\ waiter'.reason = "url"
            ELSE IF waiter'.present
            THEN waiter'.phase = "resolved" /\ waiter'.reason = "appeared"
            ELSE waiter'.phase = "waiting" ]_vars

\* the element appeared by an observed mutation after an earlier one without it
C24_Witness ==
  /\ waiter.phase = "resolved"
  /\ waiter.reason = "appeared"
  /\ waiter.settledAt >= 1000
  /\ waiter.clock > waiter.settledAt
  /\ ~waiter.present

(***************************************************************************)
(* The timer handle and the debounce delay (specification Spec)            *)
(***************************************************************************)
\* the handle of every scheduled timer is the one recorded in state.urlChangeTimer
LiveTimerRecorded == \A t \in timers : t.id = state.urlChangeTimer

\* C28: the timer callback clears the handle before the duplicate check and the handler run,
\* so while processUrlChange runs state.urlChangeTimer is empty and no timer is scheduled,
\* and once the dispatch has returned a scheduled timer has its handle in
\* state.urlChangeTimer, where the next signal finds it to cancel it.
C28_HandleCleared ==
  /\ pc = "handler" => state.urlChangeTimer = NoTimer /\ timers = {}
  /\ pc = "idle" => LiveTimerRecorded

\* C29: every call of processUrlChange comes at least URL_PROCESS_DELAY after the most recent
\* raw signal, also when a handler raised a signal while it ran: no URL is dispatched while
\* a signal younger than URL_PROCESS_DELAY exists.
C29_DebounceLowerBound ==
  lastCall.outcome # "no-call" => lastCall.time - lastCall.sigTime >= URL_PROCESS_DELAY

(***************************************************************************)
(* Properties of ensureOnce (specification OnceSpec)                       *)
(***************************************************************************)
\* C25: however often ensureOnce() is called in a page, the code chained with then() runs
\* only once in total.
C25_SingleExecution == once.runs <= 1

(***************************************************************************)
(* Properties of createElementMonitor (specification ElemMonSpec)          *)
(***************************************************************************)
\* C26: the appear callbacks are called only when stableTime ms (the option as passed) have
\* gone by since the appearance of the element was detected, and with options.stableTime = 0
\* they are called in the very check that detects the element.
C26_StableTime ==
  mon.lastFire # NoFire =>
    /\ mon.lastFire.at - mon.lastFire.detected >= mon.optStable
    /\ mon.optStable = 0 => mon.lastFire.inDetect /\ mon.lastFire.at = mon.lastFire.detected

\* C36: once monitor.stop() has been called, also by one of the callbacks in the middle of a
\* batch, the monitor calls no callback any more, and its interval and stability timer are
\* released.
C36_SilentAfterStop ==
  /\ mon.afterStop = 0
  /\ mon.phase = "stopped" => mon.pollDue = NoDue /\ mon.stableDue = NoDue

\* C37: with the callbacks registered before the element first appeared, an appearance
\* episode calls the appear callbacks at most once, and the disappear callbacks are called
\* only for an episode whose appearance was notified.
C37_Alternation ==
  ~mon.late => mon.episodeAppears <= 1 /\ ~mon.orphanDisappear

(***************************************************************************)
(* Properties of CenterModal (specification ModalSpec)                     *)
(***************************************************************************)
\* C27: onClose is called exactly once for each closing of the modal, by hide, by toggle or by
\* a click on the overlay: never more often than the modal has been closed (so not for a hide
\* of a modal that is not visible), and as often once the timers of hide have run, unless the
\* modal was shown again while one of them was pending.
C27_OnCloseOnce ==
  modal.hasOnClose =>
    /\ modal.onCloseCalls <= modal.closings
    /\ (modal.hideTimers = << >> /\ ~modal.reopened) => modal.onCloseCalls = modal.closings

\* C40: when the last call was show(), after whatever show, hide and toggle calls and hide
\* timers came before, the modal is displayed (class 'visible' and no inline display:none),
\* and no hide timer hides it or calls onClose while show() is the last call.
C40_ShowDisplays ==
  modal.lastShow => Displayed(modal) /\ ~modal.closedWhileShown

(***************************************************************************)
(* Properties of repeated initialisation (specification WiredSpec)         *)
(***************************************************************************)
\* the calls of processUrlChange made so far: the timers that were set and were neither
\* cancelled nor are still scheduled
ProcessCalls == timerSeq - wrap.cancelled - Cardinality(timers)

\* C30: after k calls of initUrlMonitor a history.pushState or history.replaceState calls the
\* native method exactly once and each of the k callbacks exactly once, with the new URL;
\* with handleUrlChange as every callback there are never more calls of processUrlChange
\* than navigations, and a single navigation has led to exactly one when no timer is left.
C30_MultiInit ==
  /\ (lastOp.name \in { "pushState", "replaceState" } /\ ~lastOp.threw)
       => wrap.native = 1 /\ lastOp.changes = [ i \in 1..hooks |-> href ]
  /\ ProcessCalls <= wrap.navs
  /\ (wrap.navs = 1 /\ timers = {}) => ProcessCalls = 1

\* initUrlMonitor ran twice, one pushState called both callbacks, the first callback's timer
\* was cancelled by the second and the navigation was dispatched once
C30_Witness ==
  /\ hooks = 2
  /\ wrap.navs = 1
  /\ lastOp.name = "pushState"
  /\ Len(lastOp.changes) = 2
  /\ wrap.cancelled = 1
  /\ timers = {}
  /\ ProcessCalls = 1
  /\ lastCall.outcome = "invoked"

(***************************************************************************)
(* Properties of the shipped registry (specification ShippedSpec)          *)
(***************************************************************************)
\* the URL last looked up is an order page: host andfleet.cm-iov.com, pathname /v1/evhe/ and
\* a fragment that starts with #/order/
OrderPage ==
  /\ shipped.url # << >>
  /\ UrlHostname(shipped.url) = AndfleetHost
  /\ UrlPathname(shipped.url) = SubSeq(OrderRoute, 1, 9)
  /\ StartsWith(UrlHash(shipped.url), OrderFragment)

\* C31: for every order page, with or without a "?" inside the fragment, findHandlerForUrl
\* with the shipped registry returns handleAndfleet, and the original matcher of
\* siteManager.js returns the same.
C31_OrderPagesHandled ==
  OrderPage => shipped.refactored = "handleAndfleet" /\ shipped.legacy = shipped.refactored

(***************************************************************************)
(* Termination of the dependency polling (specification DepSpec)           *)
(***************************************************************************)
\* C35: once the 10 s timeout has fired, or once a check has found every dependency loaded,
\* no further dependency check is scheduled, also when a dependency never loads.
C35_PollingStops ==
  /\ deps.timedOut => deps.phase # "polling"
  /\ deps.phase = "ready" => deps.missing = {}

(***************************************************************************)
(* Properties of the site-manager start-up (specification ManagerSpec)     *)
(***************************************************************************)
\* C32: a settled navigation to a URL with a registered handler leads to the invocation of
\* that handler also when the debounce timer fired before window.SiteManager was exported:
\* once SiteManager is exported and no debounce timer is pending, the handler of the last
\* navigation has been invoked.
C32_NavigationNotLost ==
  ( /\ manager.exported
    /\ manager.timerDue = NoDue
    /\ manager.pendingUrl # NullUrl
    /\ findHandlerForUrl(NavConfigs, manager.pendingUrl) # Null )
  => manager.pendingUrl \in manager.invoked

\* C34: the start-up runs initSiteManager exactly once per page, and the dependency-timeout
\* error is reported only when the dependencies had not all loaded when the timeout fired.
C34_SingleInit ==
  /\ manager.initRuns <= 1
  /\ manager.timeoutErrors > 0 => ~manager.loadedAtTimeout

(***************************************************************************)
(* Properties of the tab notification (specification TabSpec)              *)
(***************************************************************************)
\* C33: a completed tab load of a page with a registered handler leads to an invocation of
\* that handler under every interleaving of the notification with the start of the content
\* script: once the load is complete, the content script listens and no debounce timer is
\* pending, the handler of the page the tab shows has been invoked.
C33_LoadDispatched ==
  ( /\ tab.complete
    /\ tab.listening
    /\ tab.timerDue = NoDue
    /\ findHandlerForUrl(NavConfigs, tab.pageUrl) # Null )
  => tab.pageUrl \in tab.invoked

(***************************************************************************)
(* Properties of StorageManager.getStorage (specification StorageSpec)     *)
(***************************************************************************)
\* the value that reading storage.k returns: handler.get
StorageGet == storage.memoryCache

\* C38: after a caller that holds the storage object has assigned storage.k = v, reading
\* storage.k returns v until k is assigned or deleted again, whenever the initial load
\* completes.
C38_ReadYourWrites ==
  storage.lastWrite # Undefined => StorageGet = storage.lastWrite

\* C39: a promise returned by getStorage resolves only after the persisted data has been
\* loaded into the storage object (a persisted key never reads as undefined from an object
\* just obtained), and one object per site is created.
C39_ResolvedAfterLoad ==
  /\ storage.created <= 1
  /\ ~storage.earlyResolved
  /\ ~storage.blankResolved

TypeOK ==
  /\ now \in 0..Horizon
  /\ pc \in {"idle", "handler"}
  /\ timerSeq \in 0..MaxSignals
  /\ state.urlChangeTimer \in 0..MaxSignals

====
